---- MODULE Spec2Model ----
(***************************************************************************)
(* Order-processing core of the Secondary Sales AI Bot: the session cart   *)
(* (st.session_state), the persisted Products / Outlets / Orders           *)
(* collections, and the operations of components/order_manager.py on them. *)
(* Money is modelled in whole rupees; the prices and discount percentages  *)
(* are chosen so that subtotal * percent / 100 is exact.                   *)
(***************************************************************************)
EXTENDS Integers, Sequences, FiniteSets, TLC

VARIABLES
    products,             \* products.json : product_id -> Product
    outlets,              \* outlets.json  : outlet_id -> Outlet
    orders,               \* orders.json   : order_id -> Order
    current_order_items,  \* st.session_state.current_order_items
    selected_outlet_id,   \* st.session_state.selected_outlet_id
    order_notes,          \* st.session_state.order_notes
    discount_percent,     \* st.session_state.discount_percent
    feedback,             \* what the last script run reported (st.error / st.success)
    target,               \* data/<collection>.json: its inode, 0 when missing
    tmp,                  \* data/<collection>.tmp: its inode, 0 when missing
    inodes,               \* the files written so far: contents and st_mtime
    backups,              \* data/backups/<collection>_<timestamp>.json
    clock,                \* datetime.now(), in seconds
    calls,                \* calls of the Record Store started so far
    proc,                 \* the calls in progress, one per script run
    analytics,            \* what get_sales_analytics returned to the reports page
    voice,                \* the voice command heard and what became of it
    backup_enabled,       \* DataProcessor.backup_enabled (settings.BACKUP_ENABLED)
    runs                  \* _confirm_order in progress in each of two sessions

vars == <<products, outlets, orders, current_order_items, selected_outlet_id,
          order_notes, discount_percent, feedback,
          target, tmp, inodes, backups, clock, calls, proc, analytics, voice,
          backup_enabled, runs>>

\* the session and the collections as the order form sees them
order_form == <<products, outlets, orders, current_order_items,
                selected_outlet_id, order_notes, discount_percent, feedback>>

\* one collection as the Record Store keeps it in the data directory
record_store == <<target, tmp, inodes, backups, clock, calls, proc>>

\* what the order form leaves alone, and what the Record Store leaves alone
outside_order_form == <<record_store, analytics, voice, backup_enabled, runs>>
outside_record_store == <<order_form, analytics, voice, backup_enabled, runs>>

cart == <<current_order_items, selected_outlet_id, order_notes, discount_percent>>

----------------------------------------------------------------------------
(* Bounds of the model *)

\* units of product one session handles: those in the cart plus those in the
\* persisted orders
MaxUnits == 2

\* units of product in the cart of a session that only builds a cart
MaxCartUnits == 4

\* calls of the Record Store that two concurrent script runs make
MaxCalls == 3

\* saves of one collection made one after the other
MaxSaves == 11

\* calls of the typed loads and saves made one after the other
MaxTypedCalls == 3

\* orders in the file the reports page reads
MaxReportOrders == 2

\* phrases in one recognised command
MaxPhrases == 3

----------------------------------------------------------------------------
(* Values *)

None == "None"
Today == "today"

ProductIds == {"P1", "P2"}
UnknownProductId == "PX"
OutletIds == {"O1", "O2"}

\* prices an external editor of products.json gives to P1
ExternalPrices == {250, 300}

\* quantities a caller asks for (the voice path passes any integer)
QtyInputs == 0 .. 3

\* the largest value of the "Qty" input of the "Add" button
MaxQtyInput == 1000

\* values of the "Discount %" input
MaxDiscountPercent == 50
DiscountInputs == {0, MaxDiscountPercent}

\* values of the "Discount %" input in a session that only builds a cart
SummaryDiscounts == {0, 10, 20, MaxDiscountPercent}

NotesInputs == {"", "urgent"}

\* where the Record Store may fail during one confirmation
Faults == {"none", "load", "save_orders", "save_outlets"}

InitProducts ==
    [p \in ProductIds |->
        IF p = "P1"
        THEN [name |-> "Cola 500ml", price |-> 250, stock |-> 2,
              size |-> "500ml", category |-> "Beverages"]
        ELSE [name |-> "Chips", price |-> 100, stock |-> 1,
              size |-> "50g", category |-> "Snacks"]]

InitOutlets ==
    [o \in OutletIds |->
        IF o = "O1"
        THEN [name |-> "Alpha Store", credit_limit |-> 5000,
              outstanding_amount |-> 1000, last_order_date |-> None,
              is_active |-> TRUE]
        ELSE [name |-> "Beta Mart", credit_limit |-> 200,
              outstanding_amount |-> 0, last_order_date |-> None,
              is_active |-> TRUE]]

----------------------------------------------------------------------------
(* Validation Engine *)

\* validate_quantity(...).is_valid
validate_quantity(quantity, min_qty, max_qty) ==
    IF quantity < min_qty THEN FALSE
    ELSE IF quantity > max_qty THEN FALSE
    ELSE TRUE

\* mutant: the order total alone is compared with the limit
validate_credit_limit_ignores_outstanding(order_total, current_outstanding, credit_limit) ==
    ~(order_total > credit_limit)

\* mutant: the balance alone is compared with the limit
validate_credit_limit_checks_balance_only(order_total, current_outstanding, credit_limit) ==
    ~(current_outstanding > credit_limit)

\* validate_credit_limit(...).is_valid
validate_credit_limit(order_total, current_outstanding, credit_limit) ==
    LET total_exposure == current_outstanding + order_total
    IN  ~(total_exposure > credit_limit)

----------------------------------------------------------------------------
(* Cart Builder *)

RECURSIVE SumTotalPrice(_)
\* sum(item.total_price for item in items)
SumTotalPrice(items) ==
    IF items = <<>> THEN 0
    ELSE Head(items).total_price + SumTotalPrice(Tail(items))

\* mutant: the percentage is used as a fraction
DiscountAmount_forgets_division(total, percent) == total * percent

\* total * (discount_percent / 100)
DiscountAmount(total, percent) == (total * percent) \div 100

\* the totals shown by _render_order_summary; final_total is handed to confirm
SummaryTotals(items, percent) ==
    LET total == SumTotalPrice(items)
        discount_amount == DiscountAmount(total, percent)
        tax_amount == (total - discount_amount) * 0
    IN  [subtotal |-> total, discount_amount |-> discount_amount,
         tax_amount |-> tax_amount,
         final_total |-> total - discount_amount + tax_amount]

\* DataProcessor.calculate_order_total: (subtotal, discount_amount,
\* tax_amount, total_amount)
calculate_order_total(items, percent, tax_percent) ==
    LET subtotal == SumTotalPrice(items)
        discount_amount == DiscountAmount(subtotal, percent)
        taxable_amount == subtotal - discount_amount
        tax_amount == (taxable_amount * tax_percent) \div 100
        total_amount == subtotal - discount_amount + tax_amount
    IN  <<subtotal, discount_amount, tax_amount, total_amount>>

\* index of the first line whose product_id is product_id, 0 when there is none
ExistingItemIndex(items, product_id) ==
    IF \E i \in 1 .. Len(items) : items[i].product_id = product_id
    THEN CHOOSE i \in 1 .. Len(items) :
            /\ items[i].product_id = product_id
            /\ \A j \in 1 .. (i - 1) : items[j].product_id # product_id
    ELSE 0

\* the order_item dict built from the product as it is now
NewOrderItem(product_id, product, quantity) ==
    [product_id |-> product_id, product_name |-> product.name,
     quantity |-> quantity, unit_price |-> product.price,
     total_price |-> product.price * quantity,
     size |-> product.size, category |-> product.category]

\* mutant: a merge replaces the line's quantity and total instead of adding
MergeOrAppend_replaces(items, product_id, product, quantity) ==
    LET order_item == NewOrderItem(product_id, product, quantity)
        i == ExistingItemIndex(items, product_id)
    IN  IF i # 0
        THEN [items EXCEPT ![i].quantity = quantity,
                           ![i].total_price = order_item.total_price]
        ELSE Append(items, order_item)

\* merge into the existing line, or append a new one
MergeOrAppend(items, product_id, product, quantity) ==
    LET order_item == NewOrderItem(product_id, product, quantity)
        i == ExistingItemIndex(items, product_id)
    IN  IF i # 0
        THEN [items EXCEPT ![i].quantity = @ + quantity,
                           ![i].total_price = @ + order_item.total_price]
        ELSE Append(items, order_item)

RECURSIVE UnitsInLines(_, _)
\* units of one product in a sequence of line items
UnitsInLines(items, product_id) ==
    IF items = <<>> THEN 0
    ELSE (IF Head(items).product_id = product_id
          THEN Head(items).quantity ELSE 0)
         + UnitsInLines(Tail(items), product_id)

RECURSIVE UnitsOrdered(_, _)
\* units of one product in a sequence of orders
UnitsOrdered(os, product_id) ==
    IF os = <<>> THEN 0
    ELSE UnitsInLines(Head(os).items, product_id)
         + UnitsOrdered(Tail(os), product_id)

\* mutant: the units of confirmed orders are taken off the stock
AddOutcome_counts_confirmed(product_id, quantity) ==
    IF product_id \notin DOMAIN products THEN "InvalidProductError"
    ELSE LET left == products[product_id].stock
                        - UnitsOrdered(orders, product_id)
         IN  IF ~validate_quantity(quantity, 1, left)
             THEN "OrderProcessingError"
             ELSE IF quantity > left THEN "InsufficientStockError"
             ELSE "ok"

\* the outcome of _add_product_to_order_by_id: the exception it raises, or "ok"
AddOutcome(product_id, quantity) ==
    IF product_id \notin DOMAIN products THEN "InvalidProductError"
    ELSE IF ~validate_quantity(quantity, 1, products[product_id].stock)
         THEN "OrderProcessingError"
    ELSE IF quantity > products[product_id].stock THEN "InsufficientStockError"
    ELSE "ok"

RECURSIVE SumQuantity(_)
\* units of product in a sequence of line items
SumQuantity(items) ==
    IF items = <<>> THEN 0
    ELSE Head(items).quantity + SumQuantity(Tail(items))

RECURSIVE UnitsInOrders(_)
\* units of product in a sequence of orders
UnitsInOrders(os) ==
    IF os = <<>> THEN 0
    ELSE SumQuantity(Head(os).items) + UnitsInOrders(Tail(os))

\* items.pop(i), with i counted from 1
RemoveAt(items, i) ==
    SubSeq(items, 1, i - 1) \o SubSeq(items, i + 1, Len(items))

----------------------------------------------------------------------------
(* Order Confirmation Workflow *)

\* uuid.uuid4(): an id no persisted order has
uuid4(loaded_orders) == Len(loaded_orders) + 1

\* mutant: the order is built without its discount
BuildOrder_forgets_discount(order_id, outlet_id, outlet, items, percent, notes, total_amount) ==
    LET subtotal == SumTotalPrice(items)
    IN  [order_id |-> order_id, outlet_id |-> outlet_id,
         outlet_name |-> outlet.name, salesperson_id |-> "current_user",
         items |-> items, subtotal |-> subtotal,
         discount_amount |-> 0,
         tax_amount |-> 0, total_amount |-> total_amount,
         status |-> "confirmed", created_date |-> Today, notes |-> notes]

\* the Order built by _confirm_order from the cart and the loaded outlet
BuildOrder(order_id, outlet_id, outlet, items, percent, notes, total_amount) ==
    LET subtotal == SumTotalPrice(items)
    IN  [order_id |-> order_id, outlet_id |-> outlet_id,
         outlet_name |-> outlet.name, salesperson_id |-> "current_user",
         items |-> items, subtotal |-> subtotal,
         discount_amount |-> DiscountAmount(subtotal, percent),
         tax_amount |-> 0, total_amount |-> total_amount,
         status |-> "confirmed", created_date |-> Today, notes |-> notes]

\* mutant: the new order is saved alone
PutOrder_alone(loaded_orders, order_id, order) == <<order>>

\* orders[order_id] = order
PutOrder(loaded_orders, order_id, order) == Append(loaded_orders, order)

\* mutant: the balance is overwritten with the order total
UpdatedOutlets_overwrites(loaded_outlets, outlet_id, total_amount) ==
    [loaded_outlets EXCEPT
        ![outlet_id].outstanding_amount = total_amount,
        ![outlet_id].last_order_date = Today]

\* outlet.outstanding_amount += total_amount; outlet.last_order_date = today
UpdatedOutlets(loaded_outlets, outlet_id, total_amount) ==
    [loaded_outlets EXCEPT
        ![outlet_id].outstanding_amount = @ + total_amount,
        ![outlet_id].last_order_date = Today]

\* what one call leaves behind
Outcome(new_orders, new_outlets, new_cart, message) ==
    [orders |-> new_orders, outlets |-> new_outlets, cart |-> new_cart,
     feedback |-> message]

\* mutant: an aborted confirmation empties the cart's items
Aborted_clears_items(message) ==
    Outcome(orders, outlets,
            <<<<>>, selected_outlet_id, order_notes, discount_percent>>,
            message)

\* an early return or a caught exception before anything was saved
Aborted(message) == Outcome(orders, outlets, cart, message)

\* mutant: the reset after a confirmation leaves notes and discount
ClearedCart_keeps_notes == <<<<>>, None, order_notes, discount_percent>>

\* the cart after "Clear current order" at the end of a confirmation
ClearedCart == <<<<>>, None, "", 0>>

\* _confirm_order(total_amount), with the Record Store failing at `fault`
confirm_order(total_amount, fault) ==
    IF current_order_items = <<>> THEN Aborted("No items in order")
    ELSE IF selected_outlet_id = None THEN Aborted("Please select an outlet")
    ELSE IF fault = "load" THEN Aborted("Failed to confirm order: load")
    ELSE IF selected_outlet_id \notin DOMAIN outlets
         THEN Aborted("Selected outlet not found")
    ELSE
      LET outlet == outlets[selected_outlet_id]
      IN  IF ~validate_credit_limit(total_amount, outlet.outstanding_amount,
                                    outlet.credit_limit)
          THEN Aborted("Order exceeds credit limit")
          ELSE
            LET order_id == uuid4(orders)
                order == BuildOrder(order_id, selected_outlet_id, outlet,
                                    current_order_items, discount_percent,
                                    order_notes, total_amount)
                new_orders == PutOrder(orders, order_id, order)
                new_outlets == UpdatedOutlets(outlets, selected_outlet_id,
                                              total_amount)
            IN  IF fault = "save_orders"
                THEN Aborted("Failed to confirm order: save orders")
                ELSE IF fault = "save_outlets"
                THEN Outcome(new_orders, outlets, cart,
                             "Failed to confirm order: save outlets")
                ELSE Outcome(new_orders, new_outlets, ClearedCart,
                             "Order confirmed")

----------------------------------------------------------------------------
(* Record Store: one collection file, its temporary file and its backups *)

\* backups of one collection that _cleanup_old_backups keeps
BackupLimit == 10

\* write() calls that flush one json.dump to the file
NChunks == 2

\* the script runs that may use the Record Store at the same time
ProcIds == {1, 2}

\* where _create_backup may fail
BackupFaults == {"none", "copy", "unlink"}

\* {}: what load_json_file saves for a missing file
EmptyDoc == <<>>

\* a JSON document whose text differs from call to call
Doc(n) == [id \in {"K1"} |-> [version |-> n]]

\* bytes of a file that belong to no document
Hole == [doc |-> EmptyDoc, part |-> 0]

\* the text json.dump writes for a document, as the chunks it is flushed in
Serialize(d) == [k \in 1 .. NChunks |-> [doc |-> d, part |-> k]]

\* the file holds the whole text of one document
IsComplete(content) ==
    /\ Len(content) = NChunks
    /\ \A k \in 1 .. NChunks :
          content[k].part = k /\ content[k].doc = content[1].doc

\* json.load of a file that holds a whole document
json_load(content) == content[1].doc

\* a file after an edit that leaves no valid JSON in it
CorruptContent == <<Hole>>

\* the file after write(chunk) at offset pos - 1
WriteAt(content, pos, chunk) ==
    IF pos <= Len(content)
    THEN [content EXCEPT ![pos] = chunk]
    ELSE content \o [i \in 1 .. (pos - 1 - Len(content)) |-> Hole]
                 \o <<chunk>>

\* st_mtime of a file written now: later than every earlier write
Now ==
    LET stamps == {inodes[i].mtime : i \in 1 .. Len(inodes)} \cup {0}
    IN  1 + CHOOSE m \in stamps : \A x \in stamps : x <= m

\* the contents of the collection file, <<>> when it is missing
TargetContent == IF target = 0 THEN <<>> ELSE inodes[target].content

\* what a call has come to
NoResult == [raised |-> "", error_code |-> "", value |-> EmptyDoc]
Returned(v) == [raised |-> "", error_code |-> "", value |-> v]
Raised(kind, code) == [raised |-> kind, error_code |-> code, value |-> EmptyDoc]

\* a script run that is not in the Record Store; `found` is what
\* file_path.exists() told load_json_file
Idle == [pc |-> "idle", op |-> "", data |-> EmptyDoc, found |-> TRUE,
         fd |-> 0, offset |-> 0, result |-> NoResult]

\* null in a JSON text
JsonNull == "null"

\* json.dump of an Optional[str] field
json_value(v) == IF v = None THEN JsonNull ELSE v

\* json.load of a string or null
python_value(j) == IF j = JsonNull THEN None ELSE j

\* dict.get(key, default) on a loaded object, null read as None
get(d, key, default) ==
    IF key \in DOMAIN d THEN python_value(d[key]) ELSE default

\* dict.get(key, default) for a number or a boolean
get_plain(d, key, default) == IF key \in DOMAIN d THEN d[key] ELSE default

\* float(x) and int(x) of a number that is whole
float(x) == x
int(x) == x

\* save_products: data[product_id] = asdict(product), as json.dump writes it
ProductData(ps) == [k \in DOMAIN ps |-> ps[k]]

\* save_outlets: data[outlet_id] = asdict(outlet), as json.dump writes it
OutletData(os) ==
    [k \in DOMAIN os |->
        [os[k] EXCEPT !.last_order_date = json_value(@)]]

\* save_orders: data[order_id] = asdict(order), as json.dump writes it
OrderData(os) ==
    [k \in DOMAIN os |->
        [os[k] EXCEPT !.delivery_date = json_value(@),
                      !.notes = json_value(@)]]

\* load_products: a Product per key of the loaded object
load_products(data) ==
    [product_id \in DOMAIN data |->
        LET product_data == data[product_id]
        IN  [product_id |-> product_id,
             name |-> get(product_data, "name", ""),
             price |-> float(get_plain(product_data, "price", 0)),
             category |-> get(product_data, "category", ""),
             brand |-> get(product_data, "brand", ""),
             size |-> get(product_data, "size", ""),
             stock |-> int(get_plain(product_data, "stock", 0)),
             description |-> get(product_data, "description", ""),
             is_active |-> get_plain(product_data, "is_active", TRUE)]]

\* load_outlets: an Outlet per key of the loaded object
load_outlets(data) ==
    [outlet_id \in DOMAIN data |->
        LET outlet_data == data[outlet_id]
        IN  [outlet_id |-> outlet_id,
             name |-> get(outlet_data, "name", ""),
             location |-> get(outlet_data, "location", ""),
             contact_person |-> get(outlet_data, "contact_person", ""),
             phone |-> get(outlet_data, "phone", ""),
             email |-> get(outlet_data, "email", ""),
             credit_limit |-> float(get_plain(outlet_data, "credit_limit", 0)),
             outstanding_amount |->
                float(get_plain(outlet_data, "outstanding_amount", 0)),
             last_order_date |-> get(outlet_data, "last_order_date", None),
             performance_rating |->
                float(get_plain(outlet_data, "performance_rating", 0)),
             is_active |-> get_plain(outlet_data, "is_active", TRUE)]]

\* the OrderItem built from one element of "items"
load_order_item(item_data) ==
    [product_id |-> get(item_data, "product_id", ""),
     product_name |-> get(item_data, "product_name", ""),
     quantity |-> int(get_plain(item_data, "quantity", 0)),
     unit_price |-> float(get_plain(item_data, "unit_price", 0)),
     total_price |-> float(get_plain(item_data, "total_price", 0)),
     size |-> get(item_data, "size", ""),
     category |-> get(item_data, "category", "")]

\* load_orders: an Order per key of the loaded object
load_orders(data) ==
    [order_id \in DOMAIN data |->
        LET order_data == data[order_id]
            item_list == get_plain(order_data, "items", <<>>)
        IN  [order_id |-> order_id,
             outlet_id |-> get(order_data, "outlet_id", ""),
             outlet_name |-> get(order_data, "outlet_name", ""),
             salesperson_id |-> get(order_data, "salesperson_id", ""),
             items |-> [i \in 1 .. Len(item_list) |->
                           load_order_item(item_list[i])],
             subtotal |-> float(get_plain(order_data, "subtotal", 0)),
             discount_amount |->
                float(get_plain(order_data, "discount_amount", 0)),
             tax_amount |-> float(get_plain(order_data, "tax_amount", 0)),
             total_amount |-> float(get_plain(order_data, "total_amount", 0)),
             status |-> get(order_data, "status", "draft"),
             created_date |-> get(order_data, "created_date", ""),
             delivery_date |-> get(order_data, "delivery_date", None),
             notes |-> get(order_data, "notes", None)]]

SaveOps == {"save_json_file", "save_products", "save_outlets", "save_orders"}
LoadOps == {"load_json_file", "load_products", "load_outlets", "load_orders"}

\* what the outermost call raises when the JSON layer raised `exc`: the
\* except Exception of the typed loads and saves
Surface(op, exc) ==
    CASE op = "load_products"
            -> Raised("DataValidationError", "PRODUCT_LOAD_ERROR")
      [] op = "load_outlets"
            -> Raised("DataValidationError", "OUTLET_LOAD_ERROR")
      [] op = "load_orders"
            -> Raised("DataValidationError", "ORDER_LOAD_ERROR")
      [] op = "save_products"
            -> Raised("DatabaseError", "PRODUCT_SAVE_ERROR")
      [] op = "save_outlets"
            -> Raised("DatabaseError", "OUTLET_SAVE_ERROR")
      [] op = "save_orders"
            -> Raised("DatabaseError", "ORDER_SAVE_ERROR")
      [] OTHER -> exc

\* what the outermost load returns for the object the JSON layer returned
Loaded(op, doc) ==
    CASE op = "load_products" -> load_products(doc)
      [] op = "load_outlets" -> load_outlets(doc)
      [] op = "load_orders" -> load_orders(doc)
      [] OTHER -> doc

\* except Exception in save_json_file, which a BackupError reaches too; in
\* load_json_file the DatabaseError it raises is caught and raised again
SaveFailed(p) ==
    [proc EXCEPT ![p].pc = "done",
                 ![p].result =
                    Surface(proc[p].op,
                            IF proc[p].op \in LoadOps
                            THEN Raised("DatabaseError", "FILE_READ_ERROR")
                            ELSE Raised("DatabaseError", "FILE_WRITE_ERROR"))]

\* the sets of backups _cleanup_old_backups may keep: the BackupLimit files
\* of greatest st_mtime (the order of equal st_mtime is the directory's)
KeepSets(bk) ==
    {K \in SUBSET DOMAIN bk :
        /\ Cardinality(K) =
              IF Cardinality(DOMAIN bk) < BackupLimit
              THEN Cardinality(DOMAIN bk) ELSE BackupLimit
        /\ \A k \in K, d \in DOMAIN bk \ K : bk[k].mtime >= bk[d].mtime}

\* mutant: a backup file of that name is left as it is
CopyToBackup_keeps_existing(bk, timestamp) ==
    IF timestamp \in DOMAIN bk THEN bk
    ELSE [t \in DOMAIN bk \cup {timestamp} |->
            IF t = timestamp
            THEN [content |-> inodes[target].content,
                  mtime |-> inodes[target].mtime]
            ELSE bk[t]]

\* shutil.copy2(source_path, backup_path): contents and st_mtime
CopyToBackup(bk, timestamp) ==
    [t \in DOMAIN bk \cup {timestamp} |->
        IF t = timestamp
        THEN [content |-> inodes[target].content,
              mtime |-> inodes[target].mtime]
        ELSE bk[t]]

----------------------------------------------------------------------------
(* Analytics Aggregator *)

\* order.created_date[:10]: the date part of <<date, time of day>>
DatePart(created_date) == created_date[1]

\* date_range of a call without one (None, falsy)
NoRange == <<>>

\* mutant: the date range is not applied
FilterOrders_ignores_range(os, date_range) == os

\* filtered_orders: the orders whose date part lies within date_range
FilterOrders(os, date_range) ==
    IF date_range = NoRange THEN os
    ELSE LET start_date == date_range[1]
             end_date == date_range[2]
             within(order) ==
                 /\ start_date <= DatePart(order.created_date)
                 /\ DatePart(order.created_date) <= end_date
         IN  SelectSeq(os, within)

RECURSIVE SumTotalAmount(_)
\* sum(order.total_amount for order in filtered_orders.values())
SumTotalAmount(os) ==
    IF os = <<>> THEN 0
    ELSE Head(os).total_amount + SumTotalAmount(Tail(os))

RECURSIVE AllItems(_)
\* the items of the orders, in the order the two loops visit them
AllItems(os) ==
    IF os = <<>> THEN <<>> ELSE Head(os).items \o AllItems(Tail(os))

\* mutant: the items are grouped by product id, under the name seen first
ProductSales_by_product_id(os) ==
    LET items == AllItems(os)
        ids == {items[i].product_id : i \in 1 .. Len(items)}
        with_id(p) == LET is_p(item) == item.product_id = p
                      IN  SelectSeq(items, is_p)
        names == {with_id(p)[1].product_name : p \in ids}
        named(n) == LET is_n(item) ==
                            with_id(item.product_id)[1].product_name = n
                    IN  SelectSeq(items, is_n)
    IN  [n \in names |-> [quantity |-> SumQuantity(named(n)),
                          revenue |-> SumTotalPrice(named(n))]]

\* product_sales: per product_name, the quantity and revenue of its items
ProductSales(os) ==
    LET items == AllItems(os)
        names == {items[i].product_name : i \in 1 .. Len(items)}
        named(n) == LET is_n(item) == item.product_name = n
                    IN  SelectSeq(items, is_n)
    IN  [n \in names |-> [quantity |-> SumQuantity(named(n)),
                          revenue |-> SumTotalPrice(named(n))]]

\* outlet_sales: per outlet_name, the number and revenue of its orders
OutletSales(os) ==
    LET names == {os[i].outlet_name : i \in 1 .. Len(os)}
        named(n) == LET is_n(order) == order.outlet_name = n
                    IN  SelectSeq(os, is_n)
    IN  [n \in names |-> [orders |-> Len(named(n)),
                          revenue |-> SumTotalAmount(named(n))]]

\* DataProcessor.get_sales_analytics(orders, date_range)
get_sales_analytics(os, date_range) ==
    LET filtered_orders == FilterOrders(os, date_range)
        total_orders == Len(filtered_orders)
        total_revenue == SumTotalAmount(filtered_orders)
        avg_order_value == IF total_orders > 0
                           THEN total_revenue \div total_orders
                           ELSE 0
    IN  [total_orders |-> total_orders,
         total_revenue |-> total_revenue,
         avg_order_value |-> avg_order_value,
         product_sales |-> ProductSales(filtered_orders),
         outlet_sales |-> OutletSales(filtered_orders),
         date_range |-> date_range]

\* the reports page has not been rendered
NoAnalytics == [rendered |-> FALSE,
                result |-> get_sales_analytics(<<>>, NoRange)]

----------------------------------------------------------------------------
(* Command Interpreter *)

\* the characters str.strip() removes
Whitespace == {" ", "\t", "\n"}

\* the characters \d matches
DigitChars == <<"0", "1", "2", "3", "4", "5", "6", "7", "8", "9">>

UpperChars ==
    <<"A", "B", "C", "D", "E", "F", "G", "H", "I", "J", "K", "L", "M",
      "N", "O", "P", "Q", "R", "S", "T", "U", "V", "W", "X", "Y", "Z">>

LowerChars ==
    <<"a", "b", "c", "d", "e", "f", "g", "h", "i", "j", "k", "l", "m",
      "n", "o", "p", "q", "r", "s", "t", "u", "v", "w", "x", "y", "z">>

Digits == {DigitChars[d] : d \in 1 .. 10}
Uppers == {UpperChars[i] : i \in 1 .. 26}

\* str.lower(), over a string as the sequence of its characters
lower(str) ==
    LET lower_char(ch) ==
            IF ch \in Uppers
            THEN LowerChars[CHOOSE i \in 1 .. 26 : UpperChars[i] = ch]
            ELSE ch
    IN  [i \in 1 .. Len(str) |-> lower_char(str[i])]

\* str.strip()
strip(str) ==
    LET kept == {i \in 1 .. Len(str) : str[i] \notin Whitespace}
    IN  IF kept = {} THEN <<>>
        ELSE SubSeq(str,
                    CHOOSE i \in kept : \A j \in kept : i <= j,
                    CHOOSE i \in kept : \A j \in kept : j <= i)

RECURSIVE parse_int(_)
\* int() of a string of decimal digits
parse_int(digits) ==
    IF digits = <<>> THEN 0
    ELSE LET last == digits[Len(digits)]
             value == (CHOOSE i \in 1 .. 10 : DigitChars[i] = last) - 1
         IN  10 * parse_int(SubSeq(digits, 1, Len(digits) - 1)) + value

\* the elements of the regular expressions: a literal (one of `texts`), \d+,
\* .+ and .*; `group` is the number of the capturing group, 0 for none
Lit(text) == [kind |-> "literal", texts |-> {text}, group |-> 0]
OneOf(texts) == [kind |-> "literal", texts |-> texts, group |-> 0]
DigitsGroup(g) == [kind |-> "\\d+", texts |-> {}, group |-> g]
AnyGroup(g) == [kind |-> ".+", texts |-> {}, group |-> g]
AnyStar == [kind |-> ".*", texts |-> {}, group |-> 0]

RECURSIVE RunEnd(_, _, _)
\* one past the run of characters from position i on that `kind` accepts:
\* \d takes decimal digits, `.` anything but a newline
RunEnd(str, i, kind) ==
    IF i > Len(str) THEN i
    ELSE IF kind = "\\d+" /\ str[i] \notin Digits THEN i
    ELSE IF kind # "\\d+" /\ str[i] = "\n" THEN i
    ELSE RunEnd(str, i + 1, kind)

\* the positions at which a match of `element` that starts at i can end
\* (one past its last character)
StepEnds(element, str, i) ==
    CASE element.kind = "literal" ->
           {i + Len(text) : text \in
               {t \in element.texts :
                   /\ i + Len(t) <= Len(str) + 1
                   /\ str[i] = t[1]
                   /\ SubSeq(str, i, i + Len(t) - 1) = t}}
      [] element.kind = ".*" -> i .. RunEnd(str, i, element.kind)
      [] OTHER -> i + 1 .. RunEnd(str, i, element.kind)

RECURSIVE MatchAt(_, _, _, _)
\* elements k.. of `pattern` match `str` from position i on
MatchAt(pattern, k, str, i) ==
    IF k > Len(pattern) THEN TRUE
    ELSE \E j \in StepEnds(pattern[k], str, i) :
            MatchAt(pattern, k + 1, str, j)

RECURSIVE MatchEnds(_, _, _, _)
\* where each element ends in the match the backtracking search finds first:
\* every quantifier is greedy (the alternatives of a literal here never match
\* at the same position, so their order does not matter)
MatchEnds(pattern, k, str, i) ==
    IF k > Len(pattern) THEN <<>>
    ELSE LET ends == {j \in StepEnds(pattern[k], str, i) :
                         MatchAt(pattern, k + 1, str, j)}
             j == CHOOSE e \in ends : \A o \in ends : o <= e
         IN  <<j>> \o MatchEnds(pattern, k + 1, str, j)

\* re.search(pattern, str) is not None
Found(pattern, str) ==
    \E i \in 1 .. Len(str) + 1 : MatchAt(pattern, 1, str, i)

\* re.search(pattern, str), for a pattern that is found: the leftmost match
re_search(pattern, str) ==
    LET starts == {i \in 1 .. Len(str) + 1 : MatchAt(pattern, 1, str, i)}
        start == CHOOSE i \in starts : \A o \in starts : i <= o
    IN  [pattern |-> pattern, string |-> str, start |-> start,
         ends |-> MatchEnds(pattern, 1, str, start)]

\* match.group(g)
group(match, g) ==
    LET k == CHOOSE e \in 1 .. Len(match.pattern) :
                 match.pattern[e].group = g
        from == IF k = 1 THEN match.start ELSE match.ends[k - 1]
    IN  SubSeq(match.string, from, match.ends[k] - 1)

\* the literal text of the patterns
PatternText ==
    [
     create |-> <<"c", "r", "e", "a", "t", "e", " ", "o", "r", "d", "e",
          "r", " ", "f", "o", "r", " ">>,
     new |-> <<"n", "e", "w", " ", "o", "r", "d", "e", "r", " ", "f", "o",
          "r", " ">>,
     place |-> <<"p", "l", "a", "c", "e", " ", "o", "r", "d", "e", "r",
          " ", "f", "o", "r", " ">>,
     add |-> <<"a", "d", "d", " ">>,
     space |-> <<" ">>,
     to |-> <<" ", "t", "o", " ">>,
     cart |-> <<"c", "a", "r", "t">>,
     order |-> <<"o", "r", "d", "e", "r">>,
     to_the_order |-> <<" ", "t", "o", " ", "t", "h", "e", " ", "o", "r",
          "d", "e", "r">>,
     include |-> <<"i", "n", "c", "l", "u", "d", "e", " ">>,
     what |-> <<"w", "h", "a", "t">>,
     price |-> <<"p", "r", "i", "c", "e">>,
     show |-> <<"s", "h", "o", "w">>,
     promotion |-> <<"p", "r", "o", "m", "o", "t", "i", "o", "n">>,
     display |-> <<"d", "i", "s", "p", "l", "a", "y">>,
     report |-> <<"r", "e", "p", "o", "r", "t">>,
     outlet |-> <<"o", "u", "t", "l", "e", "t">>,
     performance |-> <<"p", "e", "r", "f", "o", "r", "m", "a", "n", "c",
          "e">>,
     go_to_dashboard |-> <<"g", "o", " ", "t", "o", " ", "d", "a", "s",
          "h", "b", "o", "a", "r", "d">>,
     open_order |-> <<"o", "p", "e", "n", " ", "o", "r", "d", "e", "r">>,
     show_outlet |-> <<"s", "h", "o", "w", " ", "o", "u", "t", "l", "e",
          "t">>]

\* order_patterns
order_patterns ==
    LET T == PatternText
    IN  <<[pattern |-> <<Lit(T.create), AnyGroup(1)>>,
           intent |-> "create_order"],
          [pattern |-> <<Lit(T.new), AnyGroup(1)>>,
           intent |-> "create_order"],
          [pattern |-> <<Lit(T.place), AnyGroup(1)>>,
           intent |-> "create_order"]>>

\* add_patterns
add_patterns ==
    LET T == PatternText
    IN  <<[pattern |-> <<Lit(T.add), DigitsGroup(1), Lit(T.space),
                         AnyGroup(2), Lit(T.to), OneOf({T.cart, T.order})>>,
           intent |-> "add_product"],
          [pattern |-> <<DigitsGroup(1), Lit(T.space), AnyGroup(2),
                         Lit(T.to_the_order)>>,
           intent |-> "add_product"],
          [pattern |-> <<Lit(T.include), DigitsGroup(1), Lit(T.space),
                         AnyGroup(2)>>,
           intent |-> "add_product"]>>

\* query_patterns
query_patterns ==
    LET T == PatternText
    IN  <<[pattern |-> <<Lit(T.what), AnyStar, Lit(T.price), AnyStar,
                         AnyGroup(1)>>,
           intent |-> "price_query"],
          [pattern |-> <<Lit(T.show), AnyStar, Lit(T.promotion)>>,
           intent |-> "show_promotions"],
          [pattern |-> <<Lit(T.display), AnyStar, Lit(T.report)>>,
           intent |-> "show_reports"],
          [pattern |-> <<Lit(T.outlet), AnyStar, Lit(T.performance)>>,
           intent |-> "outlet_performance"]>>

\* nav_patterns
nav_patterns ==
    LET T == PatternText
    IN  <<[pattern |-> <<Lit(T.go_to_dashboard)>>,
           intent |-> "navigate_dashboard"],
          [pattern |-> <<Lit(T.open_order)>>, intent |-> "navigate_orders"],
          [pattern |-> <<Lit(T.show_outlet)>>,
           intent |-> "navigate_outlets"]>>

QueryIntents == {query_patterns[k].intent : k \in 1 .. Len(query_patterns)}
NavIntents == {nav_patterns[k].intent : k \in 1 .. Len(nav_patterns)}

\* mutant: the navigation and query groups are tried before the other two
Patterns_navigation_first ==
    nav_patterns \o query_patterns \o add_patterns \o order_patterns

\* the four loops of validate_voice_command, in the order they run
Patterns == order_patterns \o add_patterns \o query_patterns \o nav_patterns

\* mutant: the command is handed back with every rejection
EmptyData_holds_command == [command |-> <<>>]

\* an empty dict
EmptyData == <<>>

RECURSIVE FirstFound(_, _)
\* the loops: the first of patterns k.. that is found in str, 0 for none
FirstFound(k, str) ==
    IF k > Len(Patterns) THEN 0
    ELSE IF Found(Patterns[k].pattern, str) THEN k
    ELSE FirstFound(k + 1, str)

\* validators.validate_voice_command(command):
\* <<is_valid, intent, extracted_data>>
validate_voice_command(command) ==
    IF command = <<>> THEN <<FALSE, "empty", EmptyData>>
    ELSE
      LET command_lower == strip(lower(command))
          first == FirstFound(1, command_lower)
      IN  IF first = 0 THEN <<FALSE, "unknown", [command |-> command]>>
          ELSE
            LET intent == Patterns[first].intent
                match == re_search(Patterns[first].pattern, command_lower)
            IN  CASE intent = "create_order" ->
                       <<TRUE, intent, [outlet |-> strip(group(match, 1))]>>
                  [] intent = "add_product" ->
                       <<TRUE, intent,
                         [quantity |-> parse_int(group(match, 1)),
                          product |-> strip(group(match, 2))]>>
                  [] intent \in QueryIntents ->
                       <<TRUE, intent, [query |-> command]>>
                  [] intent \in NavIntents -> <<TRUE, intent, EmptyData>>

\* no voice command has been heard
NoCommand ==
    [command |-> <<>>, heard |-> FALSE, result |-> <<FALSE, "", EmptyData>>]

\* a session that is not confirming: the cart it confirms (items, outlet,
\* discount, the total the summary passed) and what _confirm_order loaded
NoRun == [pc |-> "idle", outlet_id |-> None, items |-> <<>>, percent |-> 0,
          total_amount |-> 0, outlets |-> <<>>, orders |-> <<>>,
          feedback |-> ""]

----------------------------------------------------------------------------
(* State machine: one action per script run that handles a user event, and *)
(* the edits made to the collections from outside the session.             *)

\* the session of a new browser tab over the shipped collections
InitOrderForm ==
    /\ products = InitProducts
    /\ outlets = InitOutlets
    /\ orders = <<>>
    /\ current_order_items = <<>>
    /\ selected_outlet_id = None
    /\ order_notes = ""
    /\ discount_percent = 0
    /\ feedback = ""
    /\ analytics = NoAnalytics
    /\ voice = NoCommand
    /\ runs = [p \in ProcIds |-> NoRun]

\* the data directory: the collection file holding `doc`, or missing, and
\* the backup setting the DataProcessor was built with
InitDataDirectory(exists, doc, enabled) ==
    /\ target = IF exists THEN 1 ELSE 0
    /\ tmp = 0
    /\ inodes = IF exists
                THEN <<[content |-> Serialize(doc), mtime |-> 1]>>
                ELSE <<>>
    /\ backups = <<>>
    /\ clock = 1
    /\ calls = 0
    /\ proc = [p \in ProcIds |-> Idle]
    /\ backup_enabled = enabled

\* the data directory under the default settings (BACKUP_ENABLED = True)
InitRecordStore(exists, doc) == InitDataDirectory(exists, doc, TRUE)

Init ==
    /\ InitOrderForm
    /\ InitRecordStore(TRUE, Doc(0))

\* the outlet selectbox: only active outlets are offered, by name
SelectOutlet(o) ==
    /\ o \in DOMAIN outlets
    /\ outlets[o].is_active
    /\ selected_outlet_id' =
          CHOOSE x \in DOMAIN outlets : outlets[x].name = outlets[o].name
    /\ feedback' = ""
    /\ UNCHANGED <<products, outlets, orders, current_order_items,
                   order_notes, discount_percent>>
    /\ UNCHANGED outside_order_form

SetNotes(n) ==
    /\ order_notes' = n
    /\ feedback' = ""
    /\ UNCHANGED <<products, outlets, orders, current_order_items,
                   selected_outlet_id, discount_percent>>
    /\ UNCHANGED outside_order_form

SetDiscount(d) ==
    /\ d >= 0 /\ d <= MaxDiscountPercent
    /\ discount_percent' = d
    /\ feedback' = ""
    /\ UNCHANGED <<products, outlets, orders, current_order_items,
                   selected_outlet_id, order_notes>>
    /\ UNCHANGED outside_order_form

\* "Add" button / voice add: _add_product_to_order_by_id, exceptions reported;
\* the cart is kept within `limit` units
AddProductWithin(limit, product_id, quantity) ==
    LET outcome == AddOutcome(product_id, quantity)
    IN  /\ IF outcome = "ok"
           THEN /\ SumQuantity(current_order_items) + quantity <= limit
                /\ current_order_items' =
                      MergeOrAppend(current_order_items, product_id,
                                    products[product_id], quantity)
                /\ feedback' = "Added"
           ELSE /\ current_order_items' = current_order_items
                /\ feedback' = outcome
        /\ UNCHANGED <<products, outlets, orders, selected_outlet_id,
                       order_notes, discount_percent>>
        /\ UNCHANGED outside_order_form

AddProduct(product_id, quantity) ==
    AddProductWithin(MaxUnits - UnitsInOrders(orders), product_id, quantity)

\* the "Add" button: its "Qty" input only takes 1 .. min(stock, 1000)
AddButton(product_id, quantity) ==
    /\ product_id \in DOMAIN products
    /\ quantity >= 1
    /\ quantity <= products[product_id].stock
    /\ quantity <= MaxQtyInput
    /\ AddProduct(product_id, quantity)

\* the per-line remove button of the summary
RemoveItem(i) ==
    /\ i \in 1 .. Len(current_order_items)
    /\ current_order_items' = RemoveAt(current_order_items, i)
    /\ feedback' = ""
    /\ UNCHANGED <<products, outlets, orders, selected_outlet_id,
                   order_notes, discount_percent>>
    /\ UNCHANGED outside_order_form

\* the "Clear Order" button of the summary
ClearOrder ==
    /\ current_order_items # <<>>
    /\ current_order_items' = <<>>
    /\ feedback' = ""
    /\ UNCHANGED <<products, outlets, orders, selected_outlet_id,
                   order_notes, discount_percent>>
    /\ UNCHANGED outside_order_form

\* final_total as the summary computes it from the cart
FinalTotal == SummaryTotals(current_order_items, discount_percent).final_total

\* the "Confirm Order" button of the summary
ConfirmOrder(fault) ==
    /\ current_order_items # <<>>
    /\ UnitsInOrders(orders) + SumQuantity(current_order_items) <= MaxUnits
    /\ LET r == confirm_order(FinalTotal, fault)
       IN  /\ orders' = r.orders
           /\ outlets' = r.outlets
           /\ current_order_items' = r.cart[1]
           /\ selected_outlet_id' = r.cart[2]
           /\ order_notes' = r.cart[3]
           /\ discount_percent' = r.cart[4]
           /\ feedback' = r.feedback
    /\ UNCHANGED products
    /\ UNCHANGED outside_order_form

\* products.json edited outside the session: a new price
ExternalEditPrice(p, price) ==
    /\ p \in DOMAIN products
    /\ products[p].price # price
    /\ products' = [products EXCEPT ![p].price = price]
    /\ UNCHANGED <<outlets, orders, current_order_items, selected_outlet_id,
                   order_notes, discount_percent, feedback>>
    /\ UNCHANGED outside_order_form

\* outlets.json edited outside the session: an outlet (de)activated
ExternalSetActive(o, b) ==
    /\ o \in DOMAIN outlets
    /\ outlets[o].is_active # b
    /\ outlets' = [outlets EXCEPT ![o].is_active = b]
    /\ UNCHANGED <<products, orders, current_order_items, selected_outlet_id,
                   order_notes, discount_percent, feedback>>
    /\ UNCHANGED outside_order_form

\* outlets.json edited outside the session: an outlet record deleted
ExternalRemoveOutlet(o) ==
    /\ o \in DOMAIN outlets
    /\ outlets' = [x \in DOMAIN outlets \ {o} |-> outlets[x]]
    /\ UNCHANGED <<products, orders, current_order_items, selected_outlet_id,
                   order_notes, discount_percent, feedback>>
    /\ UNCHANGED outside_order_form

\* a script run calls a save of the Record Store with the document `d`
StartSave(p, op, d) ==
    /\ proc[p].pc \in {"idle", "done"}
    /\ calls' = calls + 1
    /\ proc' = [proc EXCEPT ![p] = [Idle EXCEPT !.pc = "save_backup",
                                                !.op = op, !.data = d]]
    /\ UNCHANGED <<target, tmp, inodes, backups, clock>>
    /\ UNCHANGED outside_record_store

\* a script run calls a load of the Record Store
StartLoad(p, op) ==
    /\ proc[p].pc \in {"idle", "done"}
    /\ calls' = calls + 1
    /\ proc' = [proc EXCEPT ![p] = [Idle EXCEPT !.pc = "load_exists",
                                                !.op = op]]
    /\ UNCHANGED <<target, tmp, inodes, backups, clock>>
    /\ UNCHANGED outside_record_store

\* load_json_file: if not file_path.exists(): save_json_file(filename, {})
LoadExists(p) ==
    /\ proc[p].pc = "load_exists"
    /\ proc' = IF target = 0
               THEN [proc EXCEPT ![p].pc = "save_backup",
                                 ![p].data = EmptyDoc,
                                 ![p].found = FALSE]
               ELSE [proc EXCEPT ![p].pc = "load_read"]
    /\ UNCHANGED <<target, tmp, inodes, backups, clock, calls>>
    /\ UNCHANGED outside_record_store

\* load_json_file: open and json.load
LoadRead(p, fail) ==
    /\ proc[p].pc = "load_read"
    /\ proc' =
          [proc EXCEPT
             ![p].pc = "done",
             ![p].result =
                IF fail \/ target = 0
                THEN Surface(proc[p].op,
                             Raised("DatabaseError", "FILE_READ_ERROR"))
                ELSE IF IsComplete(TargetContent)
                THEN Returned(Loaded(proc[p].op, json_load(TargetContent)))
                ELSE Surface(proc[p].op,
                             Raised("FileCorruptionError", "JSON_CORRUPT"))]
    /\ UNCHANGED <<target, tmp, inodes, backups, clock, calls>>
    /\ UNCHANGED outside_record_store

\* save_json_file: _create_backup when the file exists; the copy may fail
\* ("copy") and so may the unlink of an old backup ("unlink", ignored)
SaveBackup(p, fault) ==
    /\ proc[p].pc = "save_backup"
    /\ IF backup_enabled /\ target # 0
       THEN IF fault = "copy"
            THEN /\ proc' = SaveFailed(p)
                 /\ UNCHANGED backups
            ELSE /\ proc' = [proc EXCEPT ![p].pc = "save_open"]
                 /\ LET copied == CopyToBackup(backups, clock)
                    IN  IF fault = "unlink"
                        THEN backups' = copied
                        ELSE \E K \in KeepSets(copied) :
                                backups' = [t \in K |-> copied[t]]
       ELSE /\ fault = "none"
            /\ proc' = [proc EXCEPT ![p].pc = "save_open"]
            /\ UNCHANGED backups
    /\ UNCHANGED <<target, tmp, inodes, clock, calls>>
    /\ UNCHANGED outside_record_store

\* save_json_file: open(temp_path, 'w') creates the file or truncates it
SaveOpen(p, fail) ==
    /\ proc[p].pc = "save_open"
    /\ IF fail
       THEN /\ proc' = SaveFailed(p)
            /\ UNCHANGED <<tmp, inodes>>
       ELSE LET empty == [content |-> <<>>, mtime |-> Now]
            IN  /\ IF tmp # 0
                   THEN /\ inodes' = [inodes EXCEPT ![tmp] = empty]
                        /\ UNCHANGED tmp
                   ELSE /\ inodes' = Append(inodes, empty)
                        /\ tmp' = Len(inodes) + 1
                /\ proc' = [proc EXCEPT ![p].pc = "save_write",
                                        ![p].fd = tmp',
                                        ![p].offset = 0]
    /\ UNCHANGED <<target, backups, clock, calls>>
    /\ UNCHANGED outside_record_store

\* save_json_file: json.dump flushes one more chunk; the last one closes
SaveWrite(p, fail) ==
    /\ proc[p].pc = "save_write"
    /\ IF fail
       THEN /\ proc' = SaveFailed(p)
            /\ UNCHANGED inodes
       ELSE LET pos == proc[p].offset + 1
            IN  /\ inodes' =
                      [inodes EXCEPT ![proc[p].fd] =
                          [content |-> WriteAt(@.content, pos,
                                               Serialize(proc[p].data)[pos]),
                           mtime |-> Now]]
                /\ proc' = [proc EXCEPT
                              ![p].offset = pos,
                              ![p].pc = IF pos = NChunks THEN "save_replace"
                                        ELSE "save_write"]
    /\ UNCHANGED <<target, tmp, backups, clock, calls>>
    /\ UNCHANGED outside_record_store

\* save_json_file: temp_path.replace(file_path); FileNotFoundError when the
\* temporary file is gone
SaveReplace(p, fail) ==
    /\ proc[p].pc = "save_replace"
    /\ IF fail \/ tmp = 0
       THEN /\ proc' = SaveFailed(p)
            /\ UNCHANGED <<target, tmp>>
       ELSE /\ target' = tmp
            /\ tmp' = 0
            /\ proc' = [proc EXCEPT
                          ![p].pc = "done",
                          ![p].result =
                             IF proc[p].op \in LoadOps
                             THEN Returned(Loaded(proc[p].op, EmptyDoc))
                             ELSE NoResult]
    /\ UNCHANGED <<inodes, backups, clock, calls>>
    /\ UNCHANGED outside_record_store

\* the script run has ended; the next one starts in a later second
NextSecond(p, limit) ==
    /\ proc[p].pc = "done"
    /\ clock < limit
    /\ clock' = clock + 1
    /\ proc' = [proc EXCEPT ![p] = Idle]
    /\ UNCHANGED <<target, tmp, inodes, backups, calls>>
    /\ UNCHANGED outside_record_store

\* the collection file edited outside the program so that it is no JSON
ExternalCorrupt ==
    /\ target # 0
    /\ IsComplete(TargetContent)
    /\ inodes' = [inodes EXCEPT ![target] =
                     [content |-> CorruptContent, mtime |-> Now]]
    /\ UNCHANGED <<target, tmp, backups, clock, calls, proc>>
    /\ UNCHANGED outside_record_store

Next ==
    \/ \E o \in OutletIds : SelectOutlet(o)
    \/ \E n \in NotesInputs : SetNotes(n)
    \/ \E d \in DiscountInputs : SetDiscount(d)
    \/ \E p \in ProductIds, q \in QtyInputs : AddButton(p, q)
    \/ \E i \in 1 .. MaxUnits : RemoveItem(i)
    \/ ClearOrder
    \/ \E f \in Faults : ConfirmOrder(f)
    \/ \E b \in BOOLEAN : ExternalSetActive("O2", b)
    \/ ExternalRemoveOutlet("O2")

\* A session of the order form (voice mode off) in which outlets.json is
\* edited from outside and the Record Store may fail.
Spec == Init /\ [][Next]_vars

NextPriced ==
    \/ \E o \in OutletIds : SelectOutlet(o)
    \/ \E d \in DiscountInputs : SetDiscount(d)
    \/ \E p \in ProductIds, q \in QtyInputs : AddButton(p, q)
    \/ \E f \in Faults : ConfirmOrder(f)
    \/ \E price \in ExternalPrices : ExternalEditPrice("P1", price)

\* A session of the order form in which products.json is edited from outside
\* and the Record Store may fail.
SpecPriced == Init /\ [][NextPriced]_vars

NextHistory ==
    \/ \E o \in OutletIds : SelectOutlet(o)
    \/ \E d \in DiscountInputs : SetDiscount(d)
    \/ \E p \in ProductIds, q \in QtyInputs : AddButton(p, q)
    \/ \E i \in 1 .. MaxUnits : RemoveItem(i)
    \/ ClearOrder
    \/ \E f \in Faults : ConfirmOrder(f)
    \/ \E price \in ExternalPrices : ExternalEditPrice("P1", price)

\* A session of the order form that builds, empties and confirms carts while
\* products.json is edited from outside and the Record Store may fail.
SpecHistory == Init /\ [][NextHistory]_vars

AddProductToCart(product_id, quantity) ==
    AddProductWithin(MaxCartUnits, product_id, quantity)

NextCart ==
    \/ \E p \in ProductIds \cup {UnknownProductId}, q \in QtyInputs :
          AddProductToCart(p, q)
    \/ \E i \in 1 .. MaxCartUnits : RemoveItem(i)
    \/ ClearOrder
    \/ \E price \in ExternalPrices : ExternalEditPrice("P1", price)

\* A session that builds a cart, by button or by voice command, and confirms
\* nothing, while products.json is edited from outside.
SpecCart == Init /\ [][NextCart]_vars

----------------------------------------------------------------------------
(* Add-item requests with any object as the quantity *)

\* the objects a caller can pass as `quantity`: an int, a float (counted in
\* halves, so that 3 halves is 1.5) or a str
PyInt(n) == [type |-> "int", halves |-> 2 * n, text |-> <<>>]
PyFloat(halves) == [type |-> "float", halves |-> halves, text |-> <<>>]
PyStr(text) == [type |-> "str", halves |-> 0, text |-> text]

\* 0 .. 3, 0.5, 1.5, 2.5, "two" and "2"
RequestedQuantities ==
    {PyInt(n) : n \in QtyInputs}
        \cup {PyFloat(1), PyFloat(3), PyFloat(5)}
        \cup {PyStr(<<"t", "w", "o">>), PyStr(<<"2">>)}

\* int(quantity) returns a value: it raises neither ValueError nor TypeError
Converts(quantity) ==
    IF quantity.type = "str"
    THEN LET digits == strip(quantity.text)
         IN  /\ digits # <<>>
             /\ \A i \in 1 .. Len(digits) : digits[i] \in Digits
    ELSE TRUE

\* int(quantity): a float is truncated towards zero, the digits of a str are
\* read after its blanks are stripped
int_of_object(quantity) ==
    IF quantity.type = "str" THEN parse_int(strip(quantity.text))
    ELSE IF quantity.halves >= 0 THEN quantity.halves \div 2
    ELSE 0 - ((0 - quantity.halves) \div 2)

\* the outcome of _add_product_to_order_by_id for any quantity object: the
\* exception it raises, or "ok"; the bounds are checked on int(quantity), the
\* stock once more on the object itself (`quantity > product.stock`, which
\* raises TypeError for a str)
RequestOutcome(product_id, quantity) ==
    IF product_id \notin DOMAIN products THEN "InvalidProductError"
    ELSE IF ~Converts(quantity) THEN "OrderProcessingError"
    ELSE IF ~validate_quantity(int_of_object(quantity), 1, products[product_id].stock)
         THEN "OrderProcessingError"
    ELSE IF quantity.type = "str" THEN "TypeError"
    ELSE IF quantity.halves > 2 * products[product_id].stock
         THEN "InsufficientStockError"
    ELSE "ok"

\* a + b of two numbers: an int only when both are
Plus(a, b) ==
    [type |-> IF a.type = "int" /\ b.type = "int" THEN "int" ELSE "float",
     halves |-> a.halves + b.halves, text |-> <<>>]

\* the order_item dict of a request: 'quantity' is the object passed in
RequestedItem(product_id, product, quantity) ==
    [product_id |-> product_id, product_name |-> product.name,
     quantity |-> quantity, unit_price |-> product.price,
     total_price |-> (product.price * quantity.halves) \div 2,
     size |-> product.size, category |-> product.category]

\* merge into the existing line, or append a new one
MergeOrAppendRequested(items, product_id, product, quantity) ==
    LET order_item == RequestedItem(product_id, product, quantity)
        i == ExistingItemIndex(items, product_id)
    IN  IF i # 0
        THEN [items EXCEPT ![i].quantity = Plus(@, quantity),
                           ![i].total_price = @ + order_item.total_price]
        ELSE Append(items, order_item)

RECURSIVE SumHalves(_)
\* twice the units of product in a sequence of requested line items
SumHalves(items) ==
    IF items = <<>> THEN 0
    ELSE Head(items).quantity.halves + SumHalves(Tail(items))

\* _add_product_to_order_by_id called with any quantity object, exceptions
\* reported by the caller; the cart is kept within MaxCartUnits units
AddRequest(product_id, quantity) ==
    LET outcome == RequestOutcome(product_id, quantity)
    IN  /\ IF outcome = "ok"
           THEN /\ SumHalves(current_order_items) + quantity.halves
                      <= 2 * MaxCartUnits
                /\ current_order_items' =
                      MergeOrAppendRequested(current_order_items, product_id,
                                             products[product_id], quantity)
                /\ feedback' = "Added"
           ELSE /\ current_order_items' = current_order_items
                /\ feedback' = outcome
        /\ UNCHANGED <<products, outlets, orders, selected_outlet_id,
                       order_notes, discount_percent>>
        /\ UNCHANGED outside_order_form

NextRequests ==
    \/ \E p \in ProductIds \cup {UnknownProductId}, q \in RequestedQuantities :
          AddRequest(p, q)
    \/ \E i \in 1 .. MaxCartUnits : RemoveItem(i)
    \/ ClearOrder
    \/ \E o \in OutletIds : SelectOutlet(o)
    \/ \E d \in DiscountInputs : SetDiscount(d)

\* A session in which add-item requests carry any object as the quantity; the
\* quantity of a cart line is that object.
SpecRequests == Init /\ [][NextRequests]_vars

NextTotals ==
    \/ \E p \in ProductIds, q \in QtyInputs : AddProductToCart(p, q)
    \/ \E i \in 1 .. MaxCartUnits : RemoveItem(i)
    \/ \E d \in SummaryDiscounts : SetDiscount(d)
    \/ \E price \in ExternalPrices : ExternalEditPrice("P1", price)

\* A session that builds a cart and sets its discount, the summary being
\* rendered after every step, while products.json is edited from outside.
SpecTotals == Init /\ [][NextTotals]_vars

\* save_json_file(filename, data) with data unlike any saved before
SaveJson(p, limit) ==
    /\ calls < limit
    /\ StartSave(p, "save_json_file", Doc(calls + 1))

\* load_json_file(filename)
LoadJson(p, limit) ==
    /\ calls < limit
    /\ StartLoad(p, "load_json_file")

InitStore ==
    /\ InitOrderForm
    /\ \E exists \in BOOLEAN : InitRecordStore(exists, Doc(0))

NextStore ==
    \/ \E p \in ProcIds : SaveJson(p, MaxCalls)
    \/ \E p \in ProcIds : LoadJson(p, MaxCalls)
    \/ \E p \in ProcIds : LoadExists(p)
    \/ \E p \in ProcIds, fail \in BOOLEAN : LoadRead(p, fail)
    \/ \E p \in ProcIds, fault \in BackupFaults : SaveBackup(p, fault)
    \/ \E p \in ProcIds, fail \in BOOLEAN : SaveOpen(p, fail)
    \/ \E p \in ProcIds, fail \in BOOLEAN : SaveWrite(p, fail)
    \/ \E p \in ProcIds, fail \in BOOLEAN : SaveReplace(p, fail)

\* Two script runs (two browser sessions) that load and save one collection,
\* every file operation of which may fail.
SpecStore == InitStore /\ [][NextStore]_vars

NextBackups ==
    \/ SaveJson(1, MaxSaves)
    \/ SaveBackup(1, "none")
    \/ SaveOpen(1, FALSE)
    \/ SaveWrite(1, FALSE)
    \/ SaveReplace(1, FALSE)
    \/ NextSecond(1, MaxSaves + 1)

\* One script run after the other saves one collection, no file operation
\* fails, and time passes.
SpecBackups == Init /\ [][NextBackups]_vars

InitCopies ==
    /\ InitOrderForm
    /\ \E exists, enabled \in BOOLEAN :
          InitDataDirectory(exists, Doc(0), enabled)

NextCopies ==
    \/ SaveJson(1, MaxCalls)
    \/ LoadJson(1, MaxCalls)
    \/ LoadExists(1)
    \/ \E fail \in BOOLEAN : LoadRead(1, fail)
    \/ \E fault \in BackupFaults : SaveBackup(1, fault)
    \/ \E fail \in BOOLEAN : SaveOpen(1, fail)
    \/ \E fail \in BOOLEAN : SaveWrite(1, fail)
    \/ \E fail \in BOOLEAN : SaveReplace(1, fail)
    \/ NextSecond(1, MaxCalls)

\* One script run after the other loads or saves one collection, which may
\* be missing at first, with backups enabled or disabled; every file
\* operation may fail, and time may pass between two runs.
SpecCopies == InitCopies /\ [][NextCopies]_vars

\* the key under which script run p adds its record
OwnKey(p) == IF p = 1 THEN "ORD1" ELSE "ORD2"

\* what a step of a concurrent confirmation leaves alone
outside_runs ==
    <<products, current_order_items, selected_outlet_id, order_notes,
      discount_percent, feedback, record_store, analytics, voice,
      backup_enabled>>

\* "Confirm Order" in session p, whose cart holds one unit of a product for
\* outlet o at a discount: the cart is not empty, an outlet is selected, and
\* load_outlets returns
PressConfirm(p, o, product_id, percent) ==
    /\ runs[p].pc = "idle"
    /\ LET items == <<NewOrderItem(product_id, products[product_id], 1)>>
       IN  runs' = [runs EXCEPT ![p] =
                      [NoRun EXCEPT
                         !.pc = "load_orders",
                         !.outlet_id = o,
                         !.items = items,
                         !.percent = percent,
                         !.total_amount =
                            SummaryTotals(items, percent).final_total,
                         !.outlets = outlets]]
    /\ UNCHANGED <<outlets, orders>>
    /\ UNCHANGED outside_runs

\* load_orders returns; the outlet is looked up in what load_outlets
\* returned and the credit limit is checked against it
CheckCredit(p) ==
    /\ runs[p].pc = "load_orders"
    /\ LET run == runs[p]
           found == run.outlet_id \in DOMAIN run.outlets
           ok == IF found
                 THEN validate_credit_limit(
                         run.total_amount,
                         run.outlets[run.outlet_id].outstanding_amount,
                         run.outlets[run.outlet_id].credit_limit)
                 ELSE FALSE
       IN  runs' = [runs EXCEPT
                      ![p].orders = orders,
                      ![p].pc = IF ok THEN "save_orders" ELSE "done",
                      ![p].feedback =
                         IF ~found THEN "Selected outlet not found"
                         ELSE IF ~ok THEN "Order exceeds credit limit"
                         ELSE ""]
    /\ UNCHANGED <<outlets, orders>>
    /\ UNCHANGED outside_runs

\* orders[order_id] = order; save_orders(orders)
SaveOrder(p) ==
    /\ runs[p].pc = "save_orders"
    /\ LET run == runs[p]
           order == BuildOrder(OwnKey(p), run.outlet_id,
                               run.outlets[run.outlet_id], run.items,
                               run.percent, "", run.total_amount)
       IN  orders' = PutOrder(run.orders, OwnKey(p), order)
    /\ runs' = [runs EXCEPT ![p].pc = "save_outlets"]
    /\ UNCHANGED outlets
    /\ UNCHANGED outside_runs

\* outlet.outstanding_amount += total_amount; save_outlets(outlets); the
\* cart is cleared and the success reported
SaveOutlet(p) ==
    /\ runs[p].pc = "save_outlets"
    /\ outlets' = UpdatedOutlets(runs[p].outlets, runs[p].outlet_id,
                                 runs[p].total_amount)
    /\ runs' = [runs EXCEPT ![p].pc = "done",
                            ![p].feedback = "Order confirmed"]
    /\ UNCHANGED orders
    /\ UNCHANGED outside_runs

NextConfirms ==
    \/ \E p \in ProcIds, o \in OutletIds, product_id \in ProductIds,
          percent \in DiscountInputs :
          PressConfirm(p, o, product_id, percent)
    \/ \E p \in ProcIds : CheckCredit(p)
    \/ \E p \in ProcIds : SaveOrder(p)
    \/ \E p \in ProcIds : SaveOutlet(p)

\* Two sessions that each confirm one cart, the loads and saves of the two
\* confirmations interleaved in every way; no load or save fails.
SpecConfirms == Init /\ [][NextConfirms]_vars

\* mutant: the record is not put into the snapshot
PutRecord_forgets(data, key, record) == data

\* data[key] = record, on the mapping a load returned
PutRecord(data, key, record) ==
    [k \in DOMAIN data \cup {key} |-> IF k = key THEN record ELSE data[k]]

\* a caller loads the collection
LoadCollection(p) ==
    /\ proc[p].pc = "idle"
    /\ StartLoad(p, "load_json_file")

\* the caller adds its record to what it loaded and saves the whole mapping
WriteBack(p) ==
    /\ proc[p].pc = "done"
    /\ proc[p].op = "load_json_file"
    /\ proc[p].result.raised = ""
    /\ StartSave(p, "save_json_file",
                 PutRecord(proc[p].result.value, OwnKey(p), [version |-> p]))

NextWriters ==
    \/ \E p \in ProcIds : LoadCollection(p)
    \/ \E p \in ProcIds : WriteBack(p)
    \/ \E p \in ProcIds : LoadExists(p)
    \/ \E p \in ProcIds : LoadRead(p, FALSE)
    \/ \E p \in ProcIds : SaveBackup(p, "none")
    \/ \E p \in ProcIds : SaveOpen(p, FALSE)
    \/ \E p \in ProcIds : SaveWrite(p, FALSE)
    \/ \E p \in ProcIds : SaveReplace(p, FALSE)

\* Two callers that each load one collection, add a record of their own and
\* save it, in every interleaving of their file operations.
SpecWriters == Init /\ [][NextWriters]_vars

\* the reports page: get_sales_analytics over the loaded orders
RenderReports(date_range) ==
    /\ analytics' = [rendered |-> TRUE,
                     result |-> get_sales_analytics(orders, date_range)]
    /\ UNCHANGED <<order_form, record_store, voice, backup_enabled, runs>>

\* days on which orders were created and between which reports are asked for
ReportDays == 1 .. 3

\* the Order that a confirmation for `outlet` on `day` persisted; the
\* quantities make every total a multiple of 600, so that averages are whole
ReportOrder(outlet, day, order_items) ==
    [BuildOrder(0, outlet, InitOutlets[outlet], order_items, 0, "",
                SumTotalPrice(order_items))
        EXCEPT !.created_date = <<day, "T09:30:00">>]

\* the name P1 had before products.json was edited
FormerName == "Cola 0.5L"

ReportItems ==
    LET cola == NewOrderItem("P1", InitProducts["P1"], 12)
        chips == NewOrderItem("P2", InitProducts["P2"], 6)
        former == NewOrderItem("P1", [InitProducts["P1"] EXCEPT
                                         !.name = FormerName], 12)
    IN  {<<cola>>, <<chips>>, <<cola, chips>>, <<former>>}

ReportOrders ==
    {ReportOrder(o, d, order_items) :
        o \in OutletIds, d \in ReportDays, order_items \in ReportItems}

\* orders.json with up to MaxReportOrders orders, each under its own id
InitReports ==
    /\ \E n \in 0 .. MaxReportOrders :
          \E os \in [1 .. n -> ReportOrders] :
             orders = [i \in 1 .. n |-> [os[i] EXCEPT !.order_id = i]]
    /\ products = InitProducts
    /\ outlets = InitOutlets
    /\ current_order_items = <<>>
    /\ selected_outlet_id = None
    /\ order_notes = ""
    /\ discount_percent = 0
    /\ feedback = ""
    /\ analytics = NoAnalytics
    /\ voice = NoCommand
    /\ runs = [p \in ProcIds |-> NoRun]
    /\ InitRecordStore(TRUE, Doc(0))

NextReports ==
    \/ RenderReports(NoRange)
    \/ \E start_date, end_date \in ReportDays :
          RenderReports(<<start_date, end_date>>)

\* The reports page rendered, with and without a date range, over a file of
\* persisted orders.
SpecReports == InitReports /\ [][NextReports]_vars

\* what the recogniser hands over, in pieces
Phrases ==
    <<
      <<"C", "r", "e", "a", "t", "e", " ", "o", "r", "d", "e", "r", " ",
        "f", "o", "r">>,
      <<"n", "e", "w", " ", "o", "r", "d", "e", "r", " ", "f", "o", "r">>,
      <<"p", "l", "a", "c", "e", " ", "o", "r", "d", "e", "r", " ", "f",
        "o", "r">>,
      <<"a", "d", "d", " ", "2">>,
      <<"i", "n", "c", "l", "u", "d", "e", " ", "1", "0">>,
      <<"c", "o", "l", "a">>,
      <<"t", "o", " ", "c", "a", "r", "t">>,
      <<"t", "o", " ", "t", "h", "e", " ", "o", "r", "d", "e", "r">>,
      <<"w", "h", "a", "t", " ", "p", "r", "i", "c", "e">>,
      <<"s", "h", "o", "w", " ", "p", "r", "o", "m", "o", "t", "i", "o",
        "n">>,
      <<"d", "i", "s", "p", "l", "a", "y", " ", "r", "e", "p", "o", "r",
        "t">>,
      <<"o", "u", "t", "l", "e", "t", " ", "p", "e", "r", "f", "o", "r",
        "m", "a", "n", "c", "e">>,
      <<"g", "o", " ", "t", "o", " ", "d", "a", "s", "h", "b", "o", "a",
        "r", "d">>,
      <<"o", "p", "e", "n", " ", "o", "r", "d", "e", "r">>,
      <<"s", "h", "o", "w", " ", "o", "u", "t", "l", "e", "t">>,
      <<" ">>>>

RECURSIVE Join(_)
\* the phrases of an utterance, one blank between them
Join(phrases) ==
    IF phrases = <<>> THEN <<>>
    ELSE IF Len(phrases) = 1 THEN phrases[1]
    ELSE phrases[1] \o <<" ">> \o Join(Tail(phrases))

\* VoiceHandler.process_voice_command(command): the command is interpreted
ProcessVoiceCommand ==
    /\ ~voice.heard
    /\ voice' = [voice EXCEPT !.heard = TRUE,
                              !.result = validate_voice_command(voice.command)]
    /\ UNCHANGED <<order_form, record_store, analytics, backup_enabled, runs>>

\* a command of up to MaxPhrases phrases has been recognised
InitVoice ==
    /\ \E n \in 0 .. MaxPhrases :
          \E said \in [1 .. n -> 1 .. Len(Phrases)] :
             voice = [NoCommand EXCEPT
                         !.command = Join([i \in 1 .. n |-> Phrases[said[i]]])]
    /\ products = InitProducts
    /\ outlets = InitOutlets
    /\ orders = <<>>
    /\ current_order_items = <<>>
    /\ selected_outlet_id = None
    /\ order_notes = ""
    /\ discount_percent = 0
    /\ feedback = ""
    /\ analytics = NoAnalytics
    /\ runs = [p \in ProcIds |-> NoRun]
    /\ InitRecordStore(TRUE, Doc(0))

NextVoice == ProcessVoiceCommand

\* The interpreter applied to a recognised command.
SpecVoice == InitVoice /\ [][NextVoice]_vars

OrderIds == {"ORD1", "ORD2"}

\* Product, Outlet and Order objects a caller may hand to a save
ProductRecords ==
    [product_id : ProductIds, name : {"Cola 500ml"}, price : {250},
     category : {"Beverages"}, brand : {"Acme"}, size : {"500ml"},
     stock : {0, 2}, description : {""}, is_active : BOOLEAN]

OutletRecords ==
    [outlet_id : OutletIds, name : {"Alpha Store"}, location : {"Karachi"},
     contact_person : {"Ali"}, phone : {"0300"}, email : {""},
     credit_limit : {5000}, outstanding_amount : {1000},
     last_order_date : {None, Today}, performance_rating : {0},
     is_active : BOOLEAN]

OrderItemRecords ==
    [product_id : {"P1"}, product_name : {"Cola 500ml"}, quantity : {2},
     unit_price : {250}, total_price : {500}, size : {"500ml"},
     category : {"Beverages"}]

OrderRecords ==
    [order_id : OrderIds, outlet_id : {"O1"}, outlet_name : {"Alpha Store"},
     salesperson_id : {"current_user"},
     items : {<<>>} \cup {<<i>> : i \in OrderItemRecords},
     subtotal : {500}, discount_amount : {0}, tax_amount : {0},
     total_amount : {500}, status : {"confirmed"}, created_date : {Today},
     delivery_date : {None, Today}, notes : {None, "urgent"}]

\* the collections: no record, or one record under one key
Collections(key, records) == {EmptyDoc} \cup [{key} -> records]

\* the file is the collection file of these ids (or holds no collection)
FileOf(ids) ==
    IF target = 0 THEN TRUE
    ELSE IF ~IsComplete(TargetContent) THEN TRUE
    ELSE DOMAIN json_load(TargetContent) \subseteq ids

save_products(p, ps) ==
    /\ calls < MaxTypedCalls
    /\ FileOf(ProductIds)
    /\ StartSave(p, "save_products", ProductData(ps))

save_outlets(p, os) ==
    /\ calls < MaxTypedCalls
    /\ FileOf(OutletIds)
    /\ StartSave(p, "save_outlets", OutletData(os))

save_orders(p, os) ==
    /\ calls < MaxTypedCalls
    /\ FileOf(OrderIds)
    /\ StartSave(p, "save_orders", OrderData(os))

LoadProducts(p) ==
    /\ calls < MaxTypedCalls
    /\ FileOf(ProductIds)
    /\ StartLoad(p, "load_products")

LoadOutlets(p) ==
    /\ calls < MaxTypedCalls
    /\ FileOf(OutletIds)
    /\ StartLoad(p, "load_outlets")

LoadOrders(p) ==
    /\ calls < MaxTypedCalls
    /\ FileOf(OrderIds)
    /\ StartLoad(p, "load_orders")

InitTyped ==
    /\ InitOrderForm
    /\ InitRecordStore(FALSE, EmptyDoc)

NextTyped ==
    \/ \E ps \in Collections("P1", ProductRecords) : save_products(1, ps)
    \/ \E os \in Collections("O1", OutletRecords) : save_outlets(1, os)
    \/ \E os \in Collections("ORD1", OrderRecords) : save_orders(1, os)
    \/ LoadProducts(1)
    \/ LoadOutlets(1)
    \/ LoadOrders(1)
    \/ LoadExists(1)
    \/ LoadRead(1, FALSE)
    \/ SaveBackup(1, "none")
    \/ SaveOpen(1, FALSE)
    \/ SaveWrite(1, FALSE)
    \/ SaveReplace(1, FALSE)
    \/ ExternalCorrupt

\* One script run after the other saves and loads a collection of Product,
\* Outlet or Order objects; no file operation fails, and the file may be
\* damaged from outside.
SpecTyped == InitTyped /\ [][NextTyped]_vars

----------------
(* Properties of the confirmation workflow and of the cart *)

\* the confirmation ended at one of its precondition checks
PreconditionFailures ==
    {"No items in order", "Please select an outlet",
     "Selected outlet not found", "Order exceeds credit limit"}

\* the confirmation ended in the except branch
StoreFailures ==
    {"Failed to confirm order: load", "Failed to confirm order: save orders",
     "Failed to confirm order: save outlets"}

\* a step of the "Confirm Order" button (every one reports how it ended)
ConfirmStep ==
    /\ feedback' \in PreconditionFailures \cup StoreFailures
                        \cup {"Order confirmed"}
    /\ \E f \in Faults : ConfirmOrder(f)

\* the selected outlet is persisted and the cart's total does not fit its credit
ExceedsCredit ==
    /\ selected_outlet_id \in DOMAIN outlets
    /\ outlets[selected_outlet_id].outstanding_amount + FinalTotal
          > outlets[selected_outlet_id].credit_limit

\* C1: a confirmation that reaches the credit check with outstanding_amount +
\* final_total > credit_limit reports that the credit limit is exceeded and
\* leaves the persisted Orders and Outlets collections as they were.
C1_CreditExceededLeavesStore ==
    [][(ConfirmStep /\ ExceedsCredit
            /\ feedback' # "Failed to confirm order: load")
         => /\ feedback' = "Order exceeds credit limit"
            /\ orders' = orders
            /\ outlets' = outlets]_vars

\* C1 witness: a confirmation was refused for credit, with the order at hand
C1_Witness ==
    /\ feedback = "Order exceeds credit limit"
    /\ current_order_items # <<>>
    /\ ExceedsCredit

\* C2: every persisted outlet has outstanding_amount <= credit_limit.
C2_OutstandingWithinLimit ==
    \A o \in DOMAIN outlets :
        outlets[o].outstanding_amount <= outlets[o].credit_limit

\* C2 witness: two confirmed orders brought an outlet exactly to its limit
C2_Witness ==
    /\ Len(orders) = 2
    /\ "O2" \in DOMAIN outlets
    /\ outlets["O2"].outstanding_amount = outlets["O2"].credit_limit
    /\ \A i \in 1 .. Len(orders) : orders[i].outlet_id = "O2"

\* C3: a confirmation that succeeds appends exactly one order, confirmed, for
\* the selected outlet, with total_amount = final_total, and adds final_total
\* to that outlet's outstanding_amount and sets its last_order_date to today;
\* every other order and outlet record is unchanged.
C3_ConfirmPersistsOrderAndBalance ==
    [][(ConfirmStep /\ feedback' = "Order confirmed")
         => /\ Len(orders') = Len(orders) + 1
            /\ SubSeq(orders', 1, Len(orders)) = orders
            /\ orders'[Len(orders')].status = "confirmed"
            /\ orders'[Len(orders')].outlet_id = selected_outlet_id
            /\ orders'[Len(orders')].total_amount = FinalTotal
            /\ \A i \in 1 .. Len(orders) :
                  orders[i].order_id # orders'[Len(orders')].order_id
            /\ selected_outlet_id \in DOMAIN outlets
            /\ DOMAIN outlets' = DOMAIN outlets
            /\ \A o \in DOMAIN outlets :
                  IF o = selected_outlet_id
                  THEN /\ outlets'[o].outstanding_amount
                             = outlets[o].outstanding_amount + FinalTotal
                       /\ outlets'[o].last_order_date = Today
                       /\ outlets'[o].credit_limit = outlets[o].credit_limit
                       /\ outlets'[o].name = outlets[o].name
                       /\ outlets'[o].is_active = outlets[o].is_active
                  ELSE outlets'[o] = outlets[o]]_vars

\* C3 witness: outstanding 1000, limit 5000, final_total 500 -> 1500
C3_Witness ==
    /\ feedback = "Order confirmed"
    /\ Len(orders) = 1
    /\ orders[1].outlet_id = "O1"
    /\ orders[1].status = "confirmed"
    /\ orders[1].total_amount = 500
    /\ outlets["O1"].credit_limit = 5000
    /\ outlets["O1"].outstanding_amount = 1500
    /\ outlets["O1"].last_order_date = Today

\* C4: a confirmation checks: outlet selected, selected outlet exists, credit
\* limit, in this order (the cart is never empty when the button is shown);
\* the first check that fails ends it with the persisted collections and the
\* cart unchanged.
C4_PreconditionsInOrder ==
    [][ConfirmStep
         => /\ feedback' # "No items in order"
            /\ selected_outlet_id = None
                  => feedback' = "Please select an outlet"
            /\ (selected_outlet_id # None
                  /\ selected_outlet_id \notin DOMAIN outlets
                  /\ feedback' # "Failed to confirm order: load")
                  => feedback' = "Selected outlet not found"
            /\ (ExceedsCredit /\ feedback' # "Failed to confirm order: load")
                  => feedback' = "Order exceeds credit limit"
            /\ feedback' \in PreconditionFailures
                  => /\ orders' = orders
                     /\ outlets' = outlets
                     /\ current_order_items' = current_order_items
                     /\ selected_outlet_id' = selected_outlet_id
                     /\ order_notes' = order_notes
                     /\ discount_percent' = discount_percent]_vars

\* C4 witness: the selected outlet was gone at confirmation; the cart is kept
C4_Witness ==
    /\ feedback = "Selected outlet not found"
    /\ selected_outlet_id # None
    /\ selected_outlet_id \notin DOMAIN outlets
    /\ current_order_items # <<>>
    /\ order_notes # ""
    /\ discount_percent # 0

\* C5 (as claimed): a confirmation for a selected outlet that is persisted but
\* not active persists no order and changes no outlet.
C5_InactiveOutletAborts ==
    [][(ConfirmStep
            /\ selected_outlet_id \in DOMAIN outlets
            /\ ~outlets[selected_outlet_id].is_active)
         => /\ orders' = orders
            /\ outlets' = outlets]_vars

\* C6 (as claimed): a confirmation during which the Record Store fails leaves
\* either both the new order and the outlet's balance update, or neither.
C6_NoPartialConfirmation ==
    [][(ConfirmStep
            /\ feedback' \in StoreFailures)
         => (orders' = orders <=> outlets' = outlets)]_vars

\* C7: a confirmation resets the cart (items empty, no outlet, notes empty,
\* discount 0) exactly when it succeeds; after a precondition failure or a
\* failed save the cart is unchanged.
C7_CartResetOnlyOnSuccess ==
    [][ConfirmStep
         => IF feedback' = "Order confirmed"
            THEN /\ current_order_items' = <<>>
                 /\ selected_outlet_id' = None
                 /\ order_notes' = ""
                 /\ discount_percent' = 0
            ELSE /\ current_order_items' = current_order_items
                 /\ selected_outlet_id' = selected_outlet_id
                 /\ order_notes' = order_notes
                 /\ discount_percent' = discount_percent]_vars

\* C7 witness: a cart with notes and a discount was confirmed and then reset
C7_Witness ==
    /\ feedback = "Order confirmed"
    /\ orders # <<>>
    /\ orders[Len(orders)].notes = "urgent"
    /\ orders[Len(orders)].discount_amount > 0
    /\ current_order_items = <<>>
    /\ selected_outlet_id = None
    /\ order_notes = ""
    /\ discount_percent = 0

\* C8: every persisted order has subtotal = sum of its items' total_price and
\* total_amount = subtotal - discount_amount + tax_amount.
C8_OrderTotalsConsistent ==
    \A i \in 1 .. Len(orders) :
        /\ orders[i].subtotal = SumTotalPrice(orders[i].items)
        /\ orders[i].total_amount =
              orders[i].subtotal - orders[i].discount_amount
                 + orders[i].tax_amount

\* C8 witness: a persisted order with a discount, one of whose lines was
\* merged across a price edit
C8_Witness ==
    \E i \in 1 .. Len(orders) :
        /\ orders[i].discount_amount > 0
        /\ orders[i].total_amount < orders[i].subtotal
        /\ \E k \in 1 .. Len(orders[i].items) :
              orders[i].items[k].total_price
                 # orders[i].items[k].unit_price * orders[i].items[k].quantity

\* total_price = unit_price * quantity and quantity > 0, for each line
LinesConsistent(items) ==
    \A i \in 1 .. Len(items) :
        /\ items[i].quantity > 0
        /\ items[i].total_price = items[i].unit_price * items[i].quantity

\* C9 (as claimed): every line of the cart and every item of every persisted
\* order has total_price = unit_price * quantity and quantity > 0.
C9_LineTotalIsPriceTimesQuantity ==
    /\ LinesConsistent(current_order_items)
    /\ \A i \in 1 .. Len(orders) : LinesConsistent(orders[i].items)

\* C10: an add that succeeds for a product already in the cart adds the
\* quantity and quantity * price to that line and changes nothing else; for a
\* product not in the cart it appends one line at the end; the cart then holds
\* at most one line per product id.  So adding q twice at one price gives one
\* line of quantity 2q and total_price 2 * q * price.
C10_AddMergesOrAppends ==
    [][\A p \in ProductIds, q \in QtyInputs :
          (AddProductToCart(p, q) /\ feedback' = "Added")
            => LET old == current_order_items
                   new == current_order_items'
                   price == products[p].price
               IN  /\ q >= 1 /\ q <= products[p].stock
                   /\ \A i, j \in 1 .. Len(new) :
                         new[i].product_id = new[j].product_id => i = j
                   /\ IF \E i \in 1 .. Len(old) : old[i].product_id = p
                      THEN /\ Len(new) = Len(old)
                           /\ \A i \in 1 .. Len(old) :
                                 IF old[i].product_id = p
                                 THEN /\ new[i].quantity = old[i].quantity + q
                                      /\ new[i].total_price
                                            = old[i].total_price + q * price
                                      /\ new[i].product_id = p
                                      /\ new[i].unit_price = old[i].unit_price
                                      /\ new[i].product_name
                                            = old[i].product_name
                                      /\ (old[i].quantity = q
                                            /\ old[i].total_price = q * price)
                                           => /\ new[i].quantity = 2 * q
                                              /\ new[i].total_price
                                                    = 2 * q * price
                                 ELSE new[i] = old[i]
                      ELSE /\ Len(new) = Len(old) + 1
                           /\ SubSeq(new, 1, Len(old)) = old
                           /\ new[Len(new)].product_id = p
                           /\ new[Len(new)].quantity = q
                           /\ new[Len(new)].unit_price = price
                           /\ new[Len(new)].total_price = q * price]_vars

\* C10 witness: two units of P1 added twice at one price: one line, quantity
\* 4, total_price 2 * 2 * price
C10_Witness ==
    /\ feedback = "Added"
    /\ Len(current_order_items) = 1
    /\ current_order_items[1].product_id = "P1"
    /\ current_order_items[1].quantity = 2 * products["P1"].stock
    /\ current_order_items[1].total_price
          = 2 * products["P1"].stock * products["P1"].price

\* C11 (as claimed): the "Clear Order" button leaves the cart as a successful
\* confirmation does: items empty, no outlet selected, notes empty, discount 0.
C11_ClearResetsWholeCart ==
    [][ClearOrder => cart' = ClearedCart]_vars

\* C12: in every cart state (discount_percent within 0 .. 50) the summary's
\* totals, and those of calculate_order_total without tax, satisfy
\* subtotal = sum of the lines' total_price, discount_amount = subtotal *
\* discount_percent / 100, tax_amount = 0, final_total = subtotal -
\* discount_amount; so 0 <= discount_amount <= subtotal / 2 and
\* subtotal / 2 <= final_total <= subtotal.
C12_CartTotals ==
    LET t == SummaryTotals(current_order_items, discount_percent)
        c == calculate_order_total(current_order_items, discount_percent, 0)
    IN  /\ discount_percent >= 0 /\ discount_percent <= MaxDiscountPercent
        /\ t.subtotal = SumTotalPrice(current_order_items)
        /\ t.discount_amount * 100 = t.subtotal * discount_percent
        /\ t.tax_amount = 0
        /\ t.final_total = t.subtotal - t.discount_amount
        /\ 0 <= t.discount_amount /\ 2 * t.discount_amount <= t.subtotal
        /\ t.subtotal <= 2 * t.final_total /\ t.final_total <= t.subtotal
        /\ c = <<t.subtotal, t.discount_amount, t.tax_amount, t.final_total>>

\* C12 witness: a merged line across a price edit (550) and a second line
\* (100) at 20 percent: subtotal 650, discount 130, total 520
C12_Witness ==
    /\ Len(current_order_items) = 2
    /\ discount_percent = 20
    /\ SummaryTotals(current_order_items, discount_percent)
          = [subtotal |-> 650, discount_amount |-> 130, tax_amount |-> 0,
             final_total |-> 520]

----------------
(* Properties of the Record Store *)

\* C13 (as claimed): at every step of every save, also when a save fails and
\* when another save of the collection is in progress, the collection file
\* holds the whole text of one document: the previous one or a saved one.
C13_TargetNeverPartial ==
    target # 0 => IsComplete(inodes[target].content)

\* a load that found no collection file has ended for script run p
LoadedMissing(p) ==
    /\ proc[p].pc = "done"
    /\ proc[p].op \in LoadOps
    /\ ~proc[p].found

\* C14 (as claimed): a load that finds no collection file ends without an
\* error, returns the empty mapping and leaves the collection file on disk.
C14_LoadMissingNeverFails ==
    \A p \in ProcIds :
        LoadedMissing(p)
          => /\ proc[p].result.raised = ""
             /\ proc[p].result.value = EmptyDoc
             /\ target # 0

\* the saves made so far have all ended
SavesEnded(n) == calls = n /\ proc[1].pc = "done"

\* C16 (as claimed): there are never more than 10 backups of the collection,
\* and once 11 saves have been made, one after the other, there are exactly
\* 10, holding the 10 documents most recently backed up.
C16_TenMostRecentBackups ==
    /\ Cardinality(DOMAIN backups) <= BackupLimit
    /\ SavesEnded(BackupLimit + 1)
          => /\ Cardinality(DOMAIN backups) = BackupLimit
             /\ {backups[t].content : t \in DOMAIN backups}
                   = {Serialize(Doc(n)) : n \in 1 .. BackupLimit}

\* C17 (as claimed): when the copy to the backup directory fails, the save
\* goes on to write the temporary file.
C17_BackupFailureDoesNotBlockSave ==
    [][\A p \in ProcIds :
          SaveBackup(p, "copy") => proc'[p].pc = "save_open"]_vars

TypedLoads == {"load_products", "load_outlets", "load_orders"}

\* C15 (as claimed): load_products, load_outlets and load_orders, reading a
\* collection file that holds no valid JSON, raise FileCorruptionError (and
\* return no collection).
C15_CorruptFileRaisesCorruptionError ==
    [][\A p \in ProcIds :
          (/\ LoadRead(p, FALSE)
           /\ proc[p].op \in TypedLoads
           /\ target # 0
           /\ ~IsComplete(TargetContent))
            => proc'[p].result.raised = "FileCorruptionError"]_vars

\* script run p has loaded, without an error, the file as it is now
LoadedBy(p, op) ==
    /\ proc[p].pc = "done"
    /\ proc[p].op = op
    /\ proc[p].found
    /\ proc[p].result.raised = ""
    /\ target # 0
    /\ IsComplete(TargetContent)

----------------
(* Properties of the Analytics Aggregator *)

\* the orders of orders.json that the date range of the last report counts
Counted ==
    LET date_range == analytics.result.date_range
    IN  {i \in 1 .. Len(orders) :
            IF date_range = NoRange THEN TRUE
            ELSE /\ date_range[1] <= orders[i].created_date[1]
                 /\ orders[i].created_date[1] <= date_range[2]}

RECURSIVE RevenueOf(_)
\* the sum of total_amount over a set of orders of orders.json
RevenueOf(S) ==
    IF S = {} THEN 0
    ELSE LET i == CHOOSE x \in S : TRUE
         IN  orders[i].total_amount + RevenueOf(S \ {i})

\* C19: get_sales_analytics over no orders, or with a date range that no
\* order falls in, returns total_orders 0, total_revenue 0 and
\* avg_order_value 0; otherwise total_orders is the number of orders counted,
\* total_revenue the sum of their total_amount, and avg_order_value *
\* total_orders = total_revenue.
C19_AnalyticsTotals ==
    analytics.rendered
      => LET r == analytics.result
         IN  /\ r.total_orders = Cardinality(Counted)
             /\ r.total_revenue = RevenueOf(Counted)
             /\ r.avg_order_value * r.total_orders = r.total_revenue
             /\ Counted = {}
                   => /\ r.total_orders = 0
                      /\ r.total_revenue = 0
                      /\ r.avg_order_value = 0

\* C19 witness: two persisted orders, a date range that holds neither of
\* them, and a report of zeros
C19_Witness ==
    /\ analytics.rendered
    /\ Len(orders) = 2
    /\ analytics.result.date_range # NoRange
    /\ Counted = {}
    /\ analytics.result.total_orders = 0
    /\ analytics.result.avg_order_value = 0

----------------
(* Properties of the Command Interpreter *)

\* what the patterns are searched in: the command lower-cased and stripped
Searched == strip(lower(voice.command))

\* a pattern of the group is found in the command
Matches(patterns) ==
    \E k \in 1 .. Len(patterns) : Found(patterns[k].pattern, Searched)

\* C20: the groups are tried in the order order-creation, add-product, query,
\* navigation and the first group with a matching pattern gives the intent: a
\* command matching an order-creation phrasing yields create_order whatever
\* else it matches, one matching an add-product phrasing (and no
\* order-creation phrasing) yields add_product even if it matches a query or
\* navigation phrasing, and a query phrasing wins over a navigation phrasing.
C20_FirstMatchingGroupWins ==
    voice.heard
      => LET intent == voice.result[2]
         IN  IF Matches(order_patterns) THEN intent = "create_order"
             ELSE IF Matches(add_patterns) THEN intent = "add_product"
             ELSE IF Matches(query_patterns) THEN intent \in QueryIntents
             ELSE IF Matches(nav_patterns) THEN intent \in NavIntents
             ELSE intent \in {"empty", "unknown"}

\* C20 witness: a command with an order-creation, an add-product and a
\* navigation phrasing in it has been interpreted as create_order
C20_Witness ==
    /\ voice.heard
    /\ Matches(order_patterns)
    /\ Matches(add_patterns)
    /\ Matches(nav_patterns)
    /\ voice.result[1]
    /\ voice.result[2] = "create_order"

\* no pattern of any group is found in the command
Unmatched ==
    /\ ~Matches(order_patterns)
    /\ ~Matches(add_patterns)
    /\ ~Matches(query_patterns)
    /\ ~Matches(nav_patterns)

\* C21 as stated: an empty command gives (False, "empty", {}) and a command
\* that matches no pattern, whitespace-only text included, gives
\* (False, "unknown", payload) with an empty payload.
C21_UnknownHasEmptyPayload ==
    voice.heard
      => IF voice.command = <<>>
         THEN /\ ~voice.result[1]
              /\ voice.result[2] = "empty"
              /\ DOMAIN voice.result[3] = {}
         ELSE Unmatched
                 => /\ ~voice.result[1]
                    /\ voice.result[2] = "unknown"
                    /\ DOMAIN voice.result[3] = {}

\* C21 amended: an empty command gives (False, "empty", {}); a command that
\* matches no pattern, whitespace-only text included, gives
\* (False, "unknown", {command}) where command is the text as it was passed
\* in, neither lower-cased nor stripped; every other command is valid.
C21_UnknownHandsBackCommand ==
    voice.heard
      => IF voice.command = <<>>
         THEN /\ ~voice.result[1]
              /\ voice.result[2] = "empty"
              /\ DOMAIN voice.result[3] = {}
         ELSE IF Unmatched
         THEN /\ ~voice.result[1]
              /\ voice.result[2] = "unknown"
              /\ DOMAIN voice.result[3] = {"command"}
              /\ voice.result[3].command = voice.command
         ELSE voice.result[1]

\* C21 witness: a command of blanks only has been interpreted as unknown
C21_Witness ==
    /\ voice.heard
    /\ voice.command # <<>>
    /\ Searched = <<>>
    /\ voice.result[2] = "unknown"
    /\ voice.result[3].command = voice.command

----------------
(* Properties of concurrent callers *)

\* both callers have saved and neither save raised
BothSaved ==
    \A p \in ProcIds :
       /\ proc[p].pc = "done"
       /\ proc[p].op = "save_json_file"
       /\ proc[p].result.raised = ""

\* neither caller had the other's record in what it loaded
BothStale ==
    \A p, q \in ProcIds : p # q => OwnKey(q) \notin DOMAIN proc[p].data

\* C22: when two callers have each loaded the collection, added a record of
\* their own and saved without error, the file is, whole, what one of them
\* saved (its snapshot and its own record); when both had loaded before
\* either saved, the file holds that writer's record only and the other
\* writer's record is lost.
C22_LastWriteWins ==
    BothSaved
      => /\ IsComplete(TargetContent)
         /\ \E p \in ProcIds :
               /\ json_load(TargetContent) = proc[p].data
               /\ OwnKey(p) \in DOMAIN json_load(TargetContent)
         /\ BothStale
               => \E p \in ProcIds :
                     OwnKey(p) \notin DOMAIN json_load(TargetContent)

\* C22 witness: both saves returned without error and the collection holds
\* the record of caller 2 but not the record of caller 1
C22_Witness ==
    /\ BothSaved
    /\ IsComplete(TargetContent)
    /\ OwnKey(2) \in DOMAIN json_load(TargetContent)
    /\ OwnKey(1) \notin DOMAIN json_load(TargetContent)

\* the confirmation of session p saved its order
Accepted(p) ==
    \/ runs[p].pc = "save_outlets"
    \/ runs[p].pc = "done" /\ runs[p].feedback = "Order confirmed"

\* outstanding_amount and credit_limit of its outlet as session p loaded them
LoadedOutlet(p) == runs[p].outlets[runs[p].outlet_id]

\* C23: a confirmation is decided against the outstanding_amount it loaded,
\* whatever the other session has saved since: it saves its order exactly
\* when loaded outstanding_amount + total_amount is within credit_limit, and
\* reports the credit limit otherwise. Two confirmations against the same
\* outlet that loaded the same outstanding_amount are therefore both
\* accepted even when the two totals together exceed the limit.
C23_CreditCheckedAgainstLoadedBalance ==
    \A p \in ProcIds :
       /\ Accepted(p)
             => LoadedOutlet(p).outstanding_amount + runs[p].total_amount
                   <= LoadedOutlet(p).credit_limit
       /\ runs[p].pc = "done" /\ ~Accepted(p)
             => /\ runs[p].feedback = "Order exceeds credit limit"
                /\ LoadedOutlet(p).outstanding_amount + runs[p].total_amount
                      > LoadedOutlet(p).credit_limit

\* C23 witness: both sessions confirmed an order for the same outlet against
\* the same loaded outstanding_amount, and that amount plus the two totals
\* exceeds the outlet's credit_limit
C23_Witness ==
    /\ \A p \in ProcIds : runs[p].pc = "done" /\ Accepted(p)
    /\ runs[1].outlet_id = runs[2].outlet_id
    /\ LoadedOutlet(1).outstanding_amount = LoadedOutlet(2).outstanding_amount
    /\ LoadedOutlet(1).outstanding_amount + runs[1].total_amount
          + runs[2].total_amount > LoadedOutlet(1).credit_limit

----------------
(* Properties of the backups *)

\* the backups a reader would call the newest: the one with the latest
\* timestamp in its name and those of the latest st_mtime
Newest(bk) ==
    {t \in DOMAIN bk : \A u \in DOMAIN bk : u <= t}
       \cup {t \in DOMAIN bk : \A u \in DOMAIN bk : bk[u].mtime <= bk[t].mtime}

\* the step in which a save_json_file called by the program replaces the file
Replaced(p) ==
    /\ proc[p].pc = "save_replace"
    /\ proc[p].op = "save_json_file"
    /\ proc'[p].pc = "done"
    /\ proc'[p].result.raised = ""

\* C24: with backups enabled and the collection file in place, a save has
\* copied the file before it replaces it: when the save succeeds the newest
\* backup holds what the file held just before. A save makes no backup when
\* the file is missing or backups are disabled.
C24_BackupHoldsPreviousContents ==
    [][/\ Replaced(1) /\ backup_enabled /\ target # 0
          => /\ backups' # <<>>
             /\ \A t \in Newest(backups') :
                   backups'[t].content = inodes[target].content
       /\ proc[1].pc = "save_backup" /\ ~(backup_enabled /\ target # 0)
          => backups' = backups]_vars

\* C24 witness: a second save has succeeded within the second of the first,
\* and the backup holds what the first save wrote
C24_Witness ==
    /\ backup_enabled
    /\ proc[1].pc = "done"
    /\ proc[1].op = "save_json_file"
    /\ proc[1].result.raised = ""
    /\ proc[1].data = Doc(2)
    /\ clock = 1
    /\ DOMAIN backups = {1}
    /\ backups[1].content = Serialize(Doc(1))

----------------
(* Further properties of the order form *)

\* what a rejected add reports
AddFailures ==
    {"InvalidProductError", "OrderProcessingError", "InsufficientStockError"}

\* a step of the "Add" button that was rejected
AddRejected ==
    /\ feedback' \in AddFailures
    /\ \E p \in ProductIds, q \in QtyInputs : AddButton(p, q)

\* C25: no step of the order form (select, notes, discount, add, remove,
\* clear, confirm) writes the Products collection: every field of every
\* product, stock included, stays as it was, and an add is validated against
\* that stock whatever has been confirmed, so that an add of 1 .. stock units
\* is accepted again after orders for the product were confirmed.
C25_ProductsNeverWritten ==
    [][/\ products' = products
       /\ ~AddRejected]_vars

\* C25 witness: the confirmed orders hold more units of a product than its
\* stock, which is what it was
C25_Witness ==
    /\ products = InitProducts
    /\ \E p \in ProductIds : UnitsOrdered(orders, p) > products[p].stock

\* the ids of the persisted orders
OrderIdsOf(os) == {os[i].order_id : i \in 1 .. Len(os)}

\* C26: every order the confirmation workflow writes has status "confirmed"
\* and an id no persisted order has, and no step of the session (add, remove,
\* clear, another confirm) nor an edit of a Product record changes or removes
\* an order persisted before, its item snapshots included.
C26_PersistedOrdersImmutable ==
    [][/\ Len(orders') >= Len(orders)
       /\ \A i \in 1 .. Len(orders) : orders'[i] = orders[i]
       /\ \A i \in Len(orders) + 1 .. Len(orders') :
             /\ orders'[i].status = "confirmed"
             /\ orders'[i].order_id \notin OrderIdsOf(orders)
       /\ Cardinality(OrderIdsOf(orders')) = Len(orders')]_vars

\* C26 witness: an order was confirmed, the price of its product was edited
\* and a second order was confirmed; the first order still shows the price
\* it was confirmed at
C26_Witness ==
    /\ Len(orders) = 2
    /\ orders[1].status = "confirmed"
    /\ orders[1].items[1].product_id = "P1"
    /\ orders[1].items[1].unit_price
          # products[orders[1].items[1].product_id].price
    /\ orders[1].items[1].product_name = products["P1"].name

\* the exceptions of the order-processing kind
OrderProcessingErrors ==
    {"OrderProcessingError", "InvalidProductError", "InsufficientStockError"}

\* the request names an unknown product, or its quantity is not an integer, is
\* below 1 or exceeds the stock of the product
BadRequest(product_id, quantity) ==
    IF product_id \notin DOMAIN products THEN TRUE
    ELSE IF quantity.type # "int" THEN TRUE
    ELSE IF quantity.halves < 2 THEN TRUE
    ELSE quantity.halves > 2 * products[product_id].stock

----------------
(* Further properties of the Analytics Aggregator *)

RECURSIVE SumOfEntries(_, _, _)
\* the sum of one field over the entries `names` of a rollup
SumOfEntries(rollup, names, field) ==
    IF names = {} THEN 0
    ELSE LET n == CHOOSE x \in names : TRUE
         IN  rollup[n][field] + SumOfEntries(rollup, names \ {n}, field)

\* the orders of orders.json whose date part d has start_date <= d <= end_date
\* (every order when the report has no date range), as a sequence
CountedOrders ==
    LET counted(order) ==
            IF analytics.result.date_range = NoRange THEN TRUE
            ELSE /\ analytics.result.date_range[1] <= order.created_date[1]
                 /\ order.created_date[1] <= analytics.result.date_range[2]
    IN  SelectSeq(orders, counted)

\* the product names on the items of the counted orders
CountedNames ==
    {AllItems(CountedOrders)[i].product_name :
        i \in 1 .. Len(AllItems(CountedOrders))}

\* C28: get_sales_analytics counts exactly the orders whose date part lies
\* between start_date and end_date, both included; the orders of outlet_sales
\* sum to total_orders and its revenues to total_revenue; product_sales has
\* one entry per product_name of the counted items, two names of one product
\* id apart, and its quantities sum to the item quantity of the counted orders.
C28_RollupsConsistent ==
    analytics.rendered
      => LET r == analytics.result
         IN  /\ r.total_orders = Len(CountedOrders)
             /\ SumOfEntries(r.outlet_sales, DOMAIN r.outlet_sales, "orders")
                   = r.total_orders
             /\ SumOfEntries(r.outlet_sales, DOMAIN r.outlet_sales, "revenue")
                   = r.total_revenue
             /\ DOMAIN r.product_sales = CountedNames
             /\ SumOfEntries(r.product_sales, DOMAIN r.product_sales,
                             "quantity")
                   = UnitsInOrders(CountedOrders)

\* C28 witness: a report from the day of the first order to the day of the
\* second, both counted, with P1 sold under two names and two outlets
C28_Witness ==
    /\ analytics.rendered
    /\ Len(orders) = 2
    /\ analytics.result.date_range
          = <<orders[1].created_date[1], orders[2].created_date[1]>>
    /\ orders[1].created_date[1] < orders[2].created_date[1]
    /\ analytics.result.total_orders = 2
    /\ orders[1].items[1].product_id = orders[2].items[1].product_id
    /\ Cardinality(DOMAIN analytics.result.product_sales) = 2
    /\ Cardinality(DOMAIN analytics.result.outlet_sales) = 2

----------------
(* Properties of the ledger *)

\* the persisted orders of one outlet
OrdersOf(outlet_id) ==
    LET of_outlet(order) == order.outlet_id = outlet_id
    IN  SelectSeq(orders, of_outlet)

\* C29 (as claimed): after any sequence of add, remove, clear and confirm,
\* confirmations with a failing save included, the outstanding_amount of each
\* persisted outlet is its initial outstanding_amount plus the total_amount
\* of the persisted orders of that outlet.
C29_LedgerConsistent ==
    \A o \in DOMAIN outlets :
        outlets[o].outstanding_amount
            = InitOutlets[o].outstanding_amount
                 + SumTotalAmount(OrdersOf(o))

\* C30 (as claimed): a cart whose confirmation failed at the save of the
\* outlets, after its order was saved, and which is confirmed again as it is,
\* gets no second order in the Orders collection.
C30_CartPersistedOnce ==
    [][(ConfirmStep /\ feedback = "Failed to confirm order: save outlets")
         => orders' = orders]_vars

====
